---- MODULE Spec2Model ----
(***************************************************************************)
(* HealthNexus backend: the Appointment entity                             *)
(* (backend/src/models/Appointment.js): status transitions, eligibility    *)
(* predicates, cost computation and the pre-save hook.                     *)
(*                                                                         *)
(* Time is in milliseconds since the construction of the document (the     *)
(* unit of Date.getTime()).  Money amounts are integers.                   *)
(***************************************************************************)
EXTENDS Integers, Sequences, FiniteSets, Bags, TLC

VARIABLES
    now,        \* the wall clock, new Date().getTime()
    doc,        \* the in-memory Appointment document
    modified,   \* the paths Mongoose tracks as modified since the last save
    isNew,      \* the document was never persisted
    db,         \* the appointments collection: <<>> or <<the persisted record>>
    last,       \* the last operation: its inputs, its outcome, the state it started from
    ticks,      \* clock advances so far
    ops         \* cost-field writes so far

\* the variables of the appointment model
apptVars == <<now, doc, modified, isNew, db, last, ticks, ops>>

VARIABLES
    isConnected, \* CacheService.isConnected
    redis,       \* the Redis keyspace: key -> [value (a JSON text), ttl (seconds)]
    dataVer,     \* the version of the data the cached routes read: a committed write makes the next
    tasks,       \* the invalidatePatterns() routines in flight
    invalClean,  \* since the last committed write: every store call of a routine succeeded, no read ran while one was in flight
    clast,       \* the last cache operation or request: its inputs and its outcome
    creqs,       \* cache operations and requests so far
    writes       \* write requests so far

\* the variables of the cache model
cacheVars == <<isConnected, redis, dataVer, tasks, invalClean, clast, creqs, writes>>

VARIABLES
    indexCreated, \* DatabaseOptimizer.indexCreated
    idx,          \* the indexes of the database: records of collection, name, key pattern
    registered,   \* the Appointment model is registered with mongoose
    hist          \* the runs of createIndexes so far, one record each

\* the variables of the index optimizer model
idxVars == <<indexCreated, idx, registered, hist>>

VARIABLES
    hnow,        \* Date.now() in the monitoring module
    checks,      \* HealthChecker.checks: name -> the registered timeout and critical
    lastResult,  \* checkConfig.lastResult of each check
    hrun,        \* the runCheck of each check: where it is, its check function, its timer
    summary      \* what the last runAllChecks returned, or null while none has

\* the variables of the health checker model
healthVars == <<hnow, checks, lastResult, hrun, summary>>

VARIABLES
    stored,      \* the appointment as the appointments collection holds it
    treq,        \* the transition requests in flight: where each is, req.appointment
    tlog         \* the writes of the status to the collection so far, one record each

\* the variables of the concurrent transition model
concVars == <<stored, treq, tlog>>

VARIABLES
    cnow,        \* the clock of the Redis server, in seconds
    committedAt  \* when a data mutation was committed whose invalidation never ran

\* the variables of the expiry model
ttlVars == <<cnow, committedAt>>

VARIABLES
    unow,         \* Date.now() in the process of userRateLimit
    userRequests, \* the userRequests map of one userRateLimit middleware
    admitted,     \* the requests the middleware passed on, per user: their times
    ulast,        \* the last request through the middleware and its outcome
    ureqs         \* requests through the middleware so far

\* the variables of the per-user rate limit model
userRateVars == <<unow, userRequests, admitted, ulast, ureqs>>

vars == <<apptVars, cacheVars, idxVars, healthVars, concVars, ttlVars, userRateVars>>

\* what leaves the appointment model alone, the cache model, the optimizer
\* model, the health checker model, the concurrent transition model
nonApptVars == <<cacheVars, idxVars, healthVars, concVars, ttlVars, userRateVars>>
nonCacheVars == <<apptVars, idxVars, healthVars, concVars, ttlVars, userRateVars>>
nonIdxVars == <<apptVars, cacheVars, healthVars, concVars, ttlVars, userRateVars>>
nonHealthVars == <<apptVars, cacheVars, idxVars, concVars, ttlVars, userRateVars>>
nonConcVars == <<apptVars, cacheVars, idxVars, healthVars, ttlVars, userRateVars>>
nonCacheTtlVars == <<apptVars, idxVars, healthVars, concVars, userRateVars>>
nonUserRateVars == <<apptVars, cacheVars, idxVars, healthVars, concVars, ttlVars>>

\* JavaScript null
Null == [null |-> "null"]

\* the optimizer model at rest: the optimizer constructed, no run made
IndexIdle ==
    /\ indexCreated = FALSE
    /\ idx = {}
    /\ registered = TRUE
    /\ hist = <<>>

\* the per-user rate limit model at rest: the middleware created, no request
UserRateIdle ==
    /\ unow = 0
    /\ userRequests = [u \in {} |-> <<>>]
    /\ admitted = [u \in {} |-> <<>>]
    /\ ulast = [op |-> "none"]
    /\ ureqs = 0

\* no moment yet
NotYet == 0 - 1

\* the expiry model at rest: the clock at its origin, nothing committed
TtlIdle ==
    /\ cnow = 0
    /\ committedAt = NotYet

\* the concurrent transition model at rest: no appointment, no request
ConcIdle ==
    /\ stored = Null
    /\ treq = [r \in {} |-> Null]
    /\ tlog = <<>>

\* the health checker model at rest: the checker constructed, nothing registered
HealthIdle ==
    /\ hnow = 0
    /\ checks = [n \in {} |-> Null]
    /\ lastResult = [n \in {} |-> Null]
    /\ hrun = [n \in {} |-> Null]
    /\ summary = Null

\* the cache model at rest: the service constructed, nothing stored, no request made
CacheIdle ==
    /\ isConnected = FALSE
    /\ redis = [k \in {} |-> Null]
    /\ dataVer = 1
    /\ tasks = <<>>
    /\ invalClean = TRUE
    /\ clast = [op |-> "none"]
    /\ creqs = 0
    /\ writes = 0

----------------------------------------------------------------------------
(* Bounds of the model *)

MaxTicks == 2          \* clock advances in one behaviour
MaxCharges == 2        \* length of cost.additionalCharges
MaxNotes == 1          \* length of notes
MaxCostOps == 3        \* cost-field writes in one behaviour

----------------------------------------------------------------------------
(* Program constants *)

\* 1000 * 3600, the divisor of canBeCanceled / canBeRescheduled
MsPerHour == 1000 * 3600
\* 1000 * 60, the divisor of the actualDuration computation
MsPerMinute == 1000 * 60
\* the lead time canBeCanceled requires, in hours
CancelHours == 24
\* the lead time canBeRescheduled requires, in hours
RescheduleHours == 2
\* a Date / Number field that was never assigned (JavaScript undefined)
Undefined == -1

Statuses ==
    {"scheduled", "confirmed", "in-progress", "completed", "canceled",
     "no-show", "rescheduled"}

\* the schema default of status
DefaultStatus == "scheduled"

\* values a caller may pass as newStatus: every status, and a string that is none
NewStatusArgs == Statuses \cup {"archived"}

\* the updatedBy argument (default 'system')
Actors == {"system", "patient"}

\* steps of the clock between two operations
Deltas == {29999, 30000, 25 * MsPerMinute}

\* lead times of the appointment at construction
LeadTimes ==
    {1 * MsPerHour, 2 * MsPerHour, 3 * MsPerHour, 10 * MsPerHour, 24 * MsPerHour,
     30 * MsPerHour}

\* inputs of the cost fields
BasePrices == {100, -5}
ChargeAmounts == {20}
InsuranceAmounts == {30}
DirectAmounts == {5}

----------------------------------------------------------------------------
(* Pure helpers *)

RECURSIVE SumSeq(_)
SumSeq(s) == IF s = <<>> THEN 0 ELSE Head(s) + SumSeq(Tail(s))

\* Math.round(num / den) for den > 0: the nearest integer, a tie going up
MathRoundFloor(num, den) == num \div den
MathRound(num, den) == (2 * num + den) \div (2 * den)

\* x >= h where x = num / den is the real quotient and h an integer
QuotientAtLeast(num, den, h) == num >= h * den

----------------------------------------------------------------------------
(* The document *)

NewDoc(appointmentDateTime) ==
    [ status              |-> DefaultStatus,
      appointmentDateTime |-> appointmentDateTime,
      basePrice           |-> 0,
      additionalCharges   |-> <<>>,
      totalAmount         |-> 0,
      insuranceCovered    |-> 0,
      patientPayment      |-> 0,
      startTime           |-> Undefined,
      endTime             |-> Undefined,
      actualDuration      |-> Undefined,
      rescheduleHistory   |-> <<>>,
      notes               |-> <<>> ]

\* the record of an operation: its name, its arguments (to, by, amount), how it ended
\* (result), what it returned (ret) and the document and collection it started from
Op(op, to, by, amount, result, ret) ==
    [ op |-> op, to |-> to, by |-> by, amount |-> amount, result |-> result,
      ret |-> ret, pre |-> doc, preDb |-> db, preNew |-> isNew,
      preModified |-> modified ]

validTransitionsSkipStart ==
    [ s \in Statuses |->
        CASE s = "scheduled"   -> {"confirmed", "canceled", "rescheduled"}
          [] s = "confirmed"   -> {"in-progress", "completed", "canceled", "no-show",
                                   "rescheduled"}
          [] s = "in-progress" -> {"completed", "canceled"}
          [] s = "completed"   -> {}
          [] s = "canceled"    -> {}
          [] s = "no-show"     -> {}
          [] s = "rescheduled" -> {"scheduled"} ]
validTransitionsReopen ==
    [ s \in Statuses |->
        CASE s = "scheduled"   -> {"confirmed", "canceled", "rescheduled"}
          [] s = "confirmed"   -> {"in-progress", "canceled", "no-show", "rescheduled"}
          [] s = "in-progress" -> {"completed", "canceled"}
          [] s = "completed"   -> {}
          [] s = "canceled"    -> {"scheduled"}
          [] s = "no-show"     -> {}
          [] s = "rescheduled" -> {"scheduled"} ]
validTransitions ==
    [ s \in Statuses |->
        CASE s = "scheduled"   -> {"confirmed", "canceled", "rescheduled"}
          [] s = "confirmed"   -> {"in-progress", "canceled", "no-show", "rescheduled"}
          [] s = "in-progress" -> {"completed", "canceled"}
          [] s = "completed"   -> {}
          [] s = "canceled"    -> {}
          [] s = "no-show"     -> {}
          [] s = "rescheduled" -> {"scheduled"} ]

canBeCanceledStrict(d, t) ==
    /\ d.appointmentDateTime - t > CancelHours * MsPerHour
    /\ d.status \in {"scheduled", "confirmed"}
canBeCanceled(d, t) ==
    LET timeDifference == d.appointmentDateTime - t
    IN  /\ QuotientAtLeast(timeDifference, MsPerHour, CancelHours)
        /\ d.status \in {"scheduled", "confirmed"}

canBeRescheduledAsCanceled(d, t) == canBeCanceled(d, t)
canBeRescheduled(d, t) ==
    LET timeDifference == d.appointmentDateTime - t
    IN  /\ QuotientAtLeast(timeDifference, MsPerHour, RescheduleHours)
        /\ d.status \in {"scheduled", "confirmed"}

\* calculateTotalCost: the document after the call (the call returns its totalAmount)
calculateTotalCostNoCharges(d) ==
    [d EXCEPT !.totalAmount = d.basePrice,
              !.patientPayment = d.basePrice - d.insuranceCovered]
calculateTotalCost(d) ==
    LET total == d.basePrice + SumSeq(d.additionalCharges)
    IN  [d EXCEPT !.totalAmount = total,
                  !.patientPayment = total - d.insuranceCovered]

----------------------------------------------------------------------------
(* Document.save(): Mongoose validates, then runs the pre-save hook, then writes *)

CostInputPaths == {"cost.basePrice", "cost.additionalCharges", "cost.insuranceCovered"}
MinPaths ==
    {"cost.basePrice", "cost.totalAmount", "cost.insuranceCovered", "cost.patientPayment"}

\* the value a min-validated path holds
PathValue(d, p) ==
    CASE p = "cost.basePrice"        -> d.basePrice
      [] p = "cost.totalAmount"      -> d.totalAmount
      [] p = "cost.insuranceCovered" -> d.insuranceCovered
      [] p = "cost.patientPayment"   -> d.patientPayment

\* the schema's min: [0, ...] validators, run on the paths Mongoose validates:
\* every path of a new document, the modified paths of a persisted one
validates(d, m, new) ==
    \A p \in MinPaths : (new \/ p \in m) => PathValue(d, p) >= 0

\* a path is marked modified by an assignment on a new document or of another value
Marked(m, new, p, old, val) == IF new \/ val # old THEN m \cup {p} ELSE m

\* appointmentSchema.pre('save')
preSaveNever(d, m) == d
preSave(d, m) ==
    IF \E p \in CostInputPaths : p \in m THEN calculateTotalCost(d) ELSE d

\* save() of document d with modified paths m; dbOk: the write reaches the store
save(d, m, new, store, dbOk) ==
    IF ~validates(d, m, new)
    THEN [ doc |-> d, modified |-> m, isNew |-> new, db |-> store,
           result |-> "validationError" ]
    ELSE LET h  == preSave(d, m)
             m1 == Marked(m, new, "cost.totalAmount", d.totalAmount, h.totalAmount)
             m2 == Marked(m1, new, "cost.patientPayment", d.patientPayment,
                          h.patientPayment)
             mh == IF \E p \in CostInputPaths : p \in m THEN m2 ELSE m
         IN  IF dbOk
             THEN [ doc |-> h, modified |-> {}, isNew |-> FALSE, db |-> <<h>>,
                    result |-> "ok" ]
             ELSE [ doc |-> h, modified |-> mh, isNew |-> new, db |-> store,
                    result |-> "saveError" ]

----------------------------------------------------------------------------
(* appointmentSchema.methods.updateStatus *)

\* the document after the assignments of updateStatus, before its save
TransitionedStampsEveryEnd(d, newStatus, t) ==
    LET d1 == [d EXCEPT !.status = newStatus]
    IN  IF newStatus = "in-progress"
        THEN [d1 EXCEPT !.startTime = t]
        ELSE IF newStatus \in {"completed", "canceled", "no-show"}
        THEN LET d2 == [d1 EXCEPT !.endTime = t]
             IN  IF d2.startTime # Undefined
                 THEN [d2 EXCEPT !.actualDuration =
                                    MathRound(d2.endTime - d2.startTime, MsPerMinute)]
                 ELSE d2
        ELSE d1
Transitioned(d, newStatus, t) ==
    LET d1 == [d EXCEPT !.status = newStatus]
    IN  IF newStatus = "in-progress"
        THEN [d1 EXCEPT !.startTime = t]
        ELSE IF newStatus = "completed"
        THEN LET d2 == [d1 EXCEPT !.endTime = t]
             IN  IF d2.startTime # Undefined
                 THEN [d2 EXCEPT !.actualDuration =
                                    MathRound(d2.endTime - d2.startTime, MsPerMinute)]
                 ELSE d2
        ELSE d1

\* the modified paths after the assignments of updateStatus
TransitionMarks(m, newStatus) ==
    m \cup {"status"}
      \cup (IF newStatus \in {"in-progress", "completed"} THEN {"consultation"} ELSE {})

LegalOrSame(from, newStatus) ==
    newStatus \in validTransitions[from] \/ newStatus = from
Legal(from, newStatus) == newStatus \in validTransitions[from]

UpdateStatus(newStatus, updatedBy, dbOk) ==
    /\ IF ~Legal(doc.status, newStatus)
       THEN /\ last' = Op("updateStatus", newStatus, updatedBy, 0, "illegal", 0)
            /\ UNCHANGED <<doc, modified, isNew, db>>
       ELSE LET r == save(Transitioned(doc, newStatus, now),
                          TransitionMarks(modified, newStatus), isNew, db, dbOk)
            IN  /\ doc' = r.doc
                /\ modified' = r.modified
                /\ isNew' = r.isNew
                /\ db' = r.db
                /\ last' = Op("updateStatus", newStatus, updatedBy, 0, r.result, 0)
    /\ UNCHANGED <<now, ticks, ops, nonApptVars>>

\* time passes between two operations
Tick(d) ==
    /\ ticks < MaxTicks
    /\ now' = now + d
    /\ ticks' = ticks + 1
    /\ last' = Op("tick", "", "", d, "ok", 0)
    /\ UNCHANGED <<doc, modified, isNew, db, ops, nonApptVars>>

CanBeCanceled ==
    /\ last' = Op("canBeCanceled", "", "", 0,
                  IF canBeCanceled(doc, now) THEN "true" ELSE "false", 0)
    /\ UNCHANGED <<now, doc, modified, isNew, db, ticks, ops, nonApptVars>>

CanBeRescheduled ==
    /\ last' = Op("canBeRescheduled", "", "", 0,
                  IF canBeRescheduled(doc, now) THEN "true" ELSE "false", 0)
    /\ UNCHANGED <<now, doc, modified, isNew, db, ticks, ops, nonApptVars>>

----------------------------------------------------------------------------
(* Writes of the cost fields, calculateTotalCost, save and addNote *)

\* this.cost.basePrice = v
SetBasePrice(v) ==
    /\ ops < MaxCostOps
    /\ doc' = [doc EXCEPT !.basePrice = v]
    /\ modified' = Marked(modified, isNew, "cost.basePrice", doc.basePrice, v)
    /\ last' = Op("setBasePrice", "", "", v, "ok", 0)
    /\ ops' = ops + 1
    /\ UNCHANGED <<now, isNew, db, ticks, nonApptVars>>

\* this.cost.additionalCharges.push({ description, amount: a })
PushCharge(a) ==
    /\ ops < MaxCostOps
    /\ Len(doc.additionalCharges) < MaxCharges
    /\ doc' = [doc EXCEPT !.additionalCharges = Append(@, a)]
    /\ modified' = modified \cup {"cost.additionalCharges"}
    /\ last' = Op("pushCharge", "", "", a, "ok", 0)
    /\ ops' = ops + 1
    /\ UNCHANGED <<now, isNew, db, ticks, nonApptVars>>

\* this.cost.insuranceCovered = v
SetInsuranceCovered(v) ==
    /\ ops < MaxCostOps
    /\ doc' = [doc EXCEPT !.insuranceCovered = v]
    /\ modified' = Marked(modified, isNew, "cost.insuranceCovered",
                          doc.insuranceCovered, v)
    /\ last' = Op("setInsuranceCovered", "", "", v, "ok", 0)
    /\ ops' = ops + 1
    /\ UNCHANGED <<now, isNew, db, ticks, nonApptVars>>

\* this.cost.totalAmount = v, written by a caller
SetTotalAmount(v) ==
    /\ ops < MaxCostOps
    /\ doc' = [doc EXCEPT !.totalAmount = v]
    /\ modified' = Marked(modified, isNew, "cost.totalAmount", doc.totalAmount, v)
    /\ last' = Op("setTotalAmount", "", "", v, "ok", 0)
    /\ ops' = ops + 1
    /\ UNCHANGED <<now, isNew, db, ticks, nonApptVars>>

\* this.cost.patientPayment = v, written by a caller
SetPatientPayment(v) ==
    /\ ops < MaxCostOps
    /\ doc' = [doc EXCEPT !.patientPayment = v]
    /\ modified' = Marked(modified, isNew, "cost.patientPayment", doc.patientPayment, v)
    /\ last' = Op("setPatientPayment", "", "", v, "ok", 0)
    /\ ops' = ops + 1
    /\ UNCHANGED <<now, isNew, db, ticks, nonApptVars>>

\* a direct call of calculateTotalCost()
CalculateTotalCost ==
    LET d == calculateTotalCost(doc)
    IN  /\ doc' = d
        /\ modified' =
              Marked(Marked(modified, isNew, "cost.totalAmount", doc.totalAmount,
                            d.totalAmount),
                     isNew, "cost.patientPayment", doc.patientPayment, d.patientPayment)
        /\ last' = Op("calculateTotalCost", "", "", 0, "ok", d.totalAmount)
        /\ UNCHANGED <<now, isNew, db, ticks, ops, nonApptVars>>

\* a direct call of save()
Save(dbOk) ==
    LET r == save(doc, modified, isNew, db, dbOk)
    IN  /\ doc' = r.doc
        /\ modified' = r.modified
        /\ isNew' = r.isNew
        /\ db' = r.db
        /\ last' = Op("save", "", "", 0, r.result, 0)
        /\ UNCHANGED <<now, ticks, ops, nonApptVars>>

\* appointmentSchema.methods.addNote
AddNote(author, dbOk) ==
    /\ Len(doc.notes) < MaxNotes
    /\ LET r == save([doc EXCEPT !.notes = Append(@, author)],
                     modified \cup {"notes"}, isNew, db, dbOk)
       IN  /\ doc' = r.doc
           /\ modified' = r.modified
           /\ isNew' = r.isNew
           /\ db' = r.db
           /\ last' = Op("addNote", "", author, 0, r.result, 0)
    /\ UNCHANGED <<now, ticks, ops, nonApptVars>>

----------------------------------------------------------------------------
(* The appointment lifecycle: one document, the clock, the status operations *)

Init ==
    /\ now = 0
    /\ \E lead \in LeadTimes : doc = NewDoc(lead)
    /\ modified = {}
    /\ isNew = TRUE
    /\ db = <<>>
    /\ last = [ op |-> "new", to |-> "", by |-> "", amount |-> 0, result |-> "ok",
                ret |-> 0, pre |-> doc, preDb |-> <<>>, preNew |-> TRUE,
                preModified |-> {} ]
    /\ ticks = 0
    /\ ops = 0
    /\ CacheIdle
    /\ IndexIdle
    /\ HealthIdle
    /\ ConcIdle
    /\ TtlIdle
    /\ UserRateIdle

Next ==
    \/ \E d \in Deltas : Tick(d)
    \/ \E s \in NewStatusArgs, by \in Actors, dbOk \in BOOLEAN : UpdateStatus(s, by, dbOk)
    \/ CanBeCanceled
    \/ CanBeRescheduled

Spec == Init /\ [][Next]_vars

----------------------------------------------------------------------------
(* The cost of an appointment: one document, writes of its cost fields, saves *)

InitCost ==
    /\ now = 0
    /\ doc = NewDoc(30 * MsPerHour)
    /\ modified = {}
    /\ isNew = TRUE
    /\ db = <<>>
    /\ last = [ op |-> "new", to |-> "", by |-> "", amount |-> 0, result |-> "ok",
                ret |-> 0, pre |-> doc, preDb |-> <<>>, preNew |-> TRUE,
                preModified |-> {} ]
    /\ ticks = 0
    /\ ops = 0
    /\ CacheIdle
    /\ IndexIdle
    /\ HealthIdle
    /\ ConcIdle
    /\ TtlIdle
    /\ UserRateIdle

NextCost ==
    \/ \E v \in BasePrices : SetBasePrice(v)
    \/ \E a \in ChargeAmounts : PushCharge(a)
    \/ \E v \in InsuranceAmounts : SetInsuranceCovered(v)
    \/ \E v \in DirectAmounts : SetTotalAmount(v)
    \/ \E v \in DirectAmounts : SetPatientPayment(v)
    \/ CalculateTotalCost
    \/ \E dbOk \in BOOLEAN : Save(dbOk)
    \/ \E dbOk \in BOOLEAN : AddNote("provider", dbOk)
    \/ \E dbOk \in BOOLEAN : UpdateStatus("confirmed", "system", dbOk)

SpecCost == InitCost /\ [][NextCost]_vars

----------------------------------------------------------------------------
(* Properties of the transition operation *)

\* the adjacency table of the specification, as pairs <<from, to>>
TransitionTable ==
    {<<"scheduled", "confirmed">>, <<"scheduled", "canceled">>,
     <<"scheduled", "rescheduled">>,
     <<"confirmed", "in-progress">>, <<"confirmed", "canceled">>,
     <<"confirmed", "no-show">>, <<"confirmed", "rescheduled">>,
     <<"in-progress", "completed">>, <<"in-progress", "canceled">>,
     <<"rescheduled", "scheduled">>}

TerminalStatuses == {"completed", "canceled", "no-show"}

\* C1: updateStatus(to) on status `from` passes the legality check and leaves
\* status = to exactly when <<from, to>> is in the table (the status is persisted
\* whenever the store accepts the write); for every other pair, from = to
\* included, it throws the illegal-transition error and neither the document nor
\* the collection changes.
C1_TransitionTable ==
    last.op = "updateStatus" =>
        IF <<last.pre.status, last.to>> \in TransitionTable
        THEN /\ last.result \in {"ok", "saveError"}
             /\ doc.status = last.to
             /\ last.result = "ok" => (db # <<>> /\ db[1].status = last.to)
        ELSE /\ last.result = "illegal"
             /\ doc = last.pre
             /\ db = last.preDb

\* a legal transition was made and persisted: in-progress -> completed
C1_Witness ==
    /\ last.op = "updateStatus"
    /\ last.result = "ok"
    /\ last.pre.status = "in-progress"
    /\ doc.status = "completed"
    /\ db = <<doc>>

\* C2: the appointment is created in status scheduled, and once the status is
\* completed, canceled or no-show no step changes it again.
C2_TerminalAbsorbing ==
    /\ doc.status = "scheduled"
    /\ [][doc.status \in TerminalStatuses => doc'.status = doc.status]_vars

\* updateStatus was called on an appointment in a terminal status
C2_Witness ==
    /\ last.op = "updateStatus"
    /\ last.pre.status \in TerminalStatuses
    /\ last.to \in Statuses \ {last.pre.status}
    /\ doc.status = last.pre.status

\* C3: a cancel request of a user (not the system) on a confirmed appointment
\* succeeds at a lead time of at least 24 hours, and at a shorter lead time it
\* fails and leaves the status as it was.
C3_CancelGatedByLeadTime ==
    ( /\ last.op = "updateStatus"
      /\ last.to = "canceled"
      /\ last.by # "system"
      /\ last.pre.status = "confirmed" )
    => IF last.pre.appointmentDateTime - now >= 24 * 60 * 60 * 1000
       THEN last.result # "illegal" /\ doc.status = "canceled"
       ELSE last.result # "ok" /\ doc.status = "confirmed" /\ db = last.preDb

\* C4: a reschedule request of a user on a scheduled appointment succeeds at a
\* lead time of at least 2 hours, and at a shorter lead time it fails and leaves
\* the status and the reschedule history as they were.
C4_RescheduleGatedByLeadTime ==
    ( /\ last.op = "updateStatus"
      /\ last.to = "rescheduled"
      /\ last.by # "system"
      /\ last.pre.status = "scheduled" )
    => IF last.pre.appointmentDateTime - now >= 2 * 60 * 60 * 1000
       THEN last.result # "illegal" /\ doc.status = "rescheduled"
       ELSE /\ last.result # "ok"
            /\ doc.status = "scheduled"
            /\ doc.rescheduleHistory = last.pre.rescheduleHistory
            /\ db = last.preDb

----------------------------------------------------------------------------
(* Properties of the eligibility predicates *)

\* C5: canBeCanceled() is true iff the status is scheduled or confirmed and the
\* appointment is at least 24 hours (86 400 000 ms) away.
C5_CanBeCanceledIff ==
    last.op = "canBeCanceled" =>
        ( last.result = "true"
          <=> ( /\ doc.status \in {"scheduled", "confirmed"}
                /\ doc.appointmentDateTime - now >= 86400000 ) )

\* canBeCanceled() returned true at a lead time of exactly 24 hours
C5_Witness ==
    /\ last.op = "canBeCanceled"
    /\ last.result = "true"
    /\ doc.appointmentDateTime - now = 86400000

\* C6: canBeRescheduled() is true iff the status is scheduled or confirmed and the
\* appointment is at least 2 hours (7 200 000 ms) away; whenever canBeCanceled()
\* holds, canBeRescheduled() holds.
C6_CanBeRescheduledIff ==
    /\ last.op = "canBeRescheduled" =>
          ( last.result = "true"
            <=> ( /\ doc.status \in {"scheduled", "confirmed"}
                  /\ doc.appointmentDateTime - now >= 7200000 ) )
    /\ canBeCanceled(doc, now) => canBeRescheduled(doc, now)

\* canBeRescheduled() returned true for an appointment that cannot be canceled
C6_Witness ==
    /\ last.op = "canBeRescheduled"
    /\ last.result = "true"
    /\ ~canBeCanceled(doc, now)
    /\ doc.appointmentDateTime - now < 86400000

----------------------------------------------------------------------------
(* Properties of the cost computation *)

\* the sum of the amounts of a list of charges, by index
ChargesTotal(charges) ==
    LET S[i \in 0..Len(charges)] == IF i = 0 THEN 0 ELSE S[i - 1] + charges[i]
    IN  S[Len(charges)]

\* the document with its two derived cost fields blanked
WithoutDerived(d) == [d EXCEPT !.totalAmount = 0, !.patientPayment = 0]

\* C7: calculateTotalCost sets totalAmount = basePrice + the sum of the charges and
\* patientPayment = totalAmount - insuranceCovered, returns totalAmount and
\* changes nothing else, in the document or in the collection.
C7_CalculateTotalCost ==
    last.op = "calculateTotalCost" =>
        /\ doc.totalAmount =
              last.pre.basePrice + ChargesTotal(last.pre.additionalCharges)
        /\ doc.patientPayment = doc.totalAmount - last.pre.insuranceCovered
        /\ last.ret = doc.totalAmount
        /\ WithoutDerived(doc) = WithoutDerived(last.pre)
        /\ db = last.preDb

\* basePrice 100, one charge of 20, insuranceCovered 30: total 120, payment 90
C7_Witness ==
    /\ last.op = "calculateTotalCost"
    /\ last.pre.basePrice = 100
    /\ last.pre.additionalCharges = <<20>>
    /\ last.pre.insuranceCovered = 30
    /\ doc.totalAmount = 120
    /\ doc.patientPayment = 90
    /\ last.ret = 120

\* the two cost identities, of a persisted record
CostIdentities(r) ==
    /\ r.totalAmount = r.basePrice + ChargesTotal(r.additionalCharges)
    /\ r.patientPayment = r.totalAmount - r.insuranceCovered

\* C8 as stated: the cost identities hold of every persisted appointment.
C8_PersistedCostIdentities ==
    db # <<>> => CostIdentities(db[1])

\* the last operation was a save that reached the store
Saved == last.op \in {"save", "addNote", "updateStatus"} /\ last.result = "ok"

\* C8 amended: a save in which basePrice, additionalCharges or insuranceCovered
\* was modified persists a record of which the cost identities hold; a save in
\* which none was modified persists totalAmount and patientPayment as they stood.
C8_RecomputedWhenInputsModified ==
    Saved =>
        IF last.preModified \cap CostInputPaths # {}
        THEN CostIdentities(db[1])
        ELSE /\ db[1].totalAmount = last.pre.totalAmount
             /\ db[1].patientPayment = last.pre.patientPayment

\* a save recomputed the derived fields over values a caller had written to them
C8_Witness ==
    /\ Saved
    /\ last.preModified \cap CostInputPaths # {}
    /\ "cost.totalAmount" \in last.preModified
    /\ last.pre.totalAmount # db[1].totalAmount
    /\ db[1].totalAmount = 100

\* C9: patientPayment is never negative in a persisted appointment whose
\* basePrice, charges and insuranceCovered are non-negative.
C9_PatientPaymentNonNegative ==
    ( /\ db # <<>>
      /\ db[1].basePrice >= 0
      /\ \A i \in 1..Len(db[1].additionalCharges) : db[1].additionalCharges[i] >= 0
      /\ db[1].insuranceCovered >= 0 )
    => db[1].patientPayment >= 0

----------------------------------------------------------------------------
(* Properties of the consultation timestamps *)

\* C10: the transition to in-progress stamps startTime with the current time; the
\* transition to completed stamps endTime with the current time and sets
\* actualDuration to the whole number of minutes nearest to endTime - startTime
\* (half a minute rounding up), so 25 minutes give 25.
C10_ConsultationStamps ==
    (last.op = "updateStatus" /\ last.result # "illegal") =>
        /\ last.to = "in-progress" => doc.startTime = now
        /\ last.to = "completed" =>
              LET elapsed == doc.endTime - doc.startTime
              IN  /\ doc.endTime = now
                  /\ doc.startTime = last.pre.startTime
                  /\ doc.actualDuration * 60000 - 30000 <= elapsed
                  /\ elapsed < doc.actualDuration * 60000 + 30000
                  /\ elapsed = 25 * 60000 => doc.actualDuration = 25

\* completed 25 minutes after in-progress: actualDuration = 25
C10_Witness ==
    /\ last.op = "updateStatus"
    /\ last.result = "ok"
    /\ last.to = "completed"
    /\ doc.startTime # Undefined
    /\ doc.endTime - doc.startTime = 25 * 60000
    /\ doc.actualDuration = 25

\* C11: endTime and actualDuration are set only if the status is completed,
\* startTime only after a step into in-progress; the only steps that write
\* startTime are those into in-progress, the only steps that write endTime or
\* actualDuration those into completed. The persisted record obeys the same.
C11_ConsultationFieldsOnlyByTheirTransitions ==
    /\ [](doc.endTime # Undefined => doc.status = "completed")
    /\ [](doc.actualDuration # Undefined => doc.status = "completed")
    /\ [](doc.startTime # Undefined
            => doc.status \in {"in-progress", "completed", "canceled"})
    /\ [](db # <<>> =>
            /\ db[1].endTime # Undefined => db[1].status = "completed"
            /\ db[1].actualDuration # Undefined => db[1].status = "completed")
    /\ [][ /\ doc'.startTime # doc.startTime
              => (doc.status # "in-progress" /\ doc'.status = "in-progress")
           /\ (doc'.endTime # doc.endTime \/ doc'.actualDuration # doc.actualDuration)
              => (doc.status # "completed" /\ doc'.status = "completed") ]_vars

\* a consultation that was started and then canceled: startTime set, no endTime
C11_Witness ==
    /\ last.op = "updateStatus"
    /\ last.result = "ok"
    /\ last.pre.status = "in-progress"
    /\ doc.status = "canceled"
    /\ doc.startTime # Undefined
    /\ doc.endTime = Undefined
    /\ doc.actualDuration = Undefined

\* the consultation of a completed appointment is whole
ConsultationWhole(d) ==
    /\ d.startTime # Undefined
    /\ d.endTime # Undefined
    /\ d.actualDuration # Undefined
    /\ d.endTime >= d.startTime
    /\ d.actualDuration >= 0

\* C26: the status becomes completed only in a step from in-progress, and a
\* completed appointment, in memory or persisted, has startTime, endTime and
\* actualDuration set, endTime not before startTime and actualDuration not
\* negative: updateStatus never completes an appointment without a startTime.
C26_CompletedPassedThroughInProgress ==
    /\ [][(doc'.status = "completed" /\ doc.status # "completed")
            => (doc.status = "in-progress" /\ doc.startTime # Undefined)]_vars
    /\ [](doc.status = "completed" => ConsultationWhole(doc))
    /\ [](db # <<>> => (db[1].status = "completed" => ConsultationWhole(db[1])))

\* a persisted appointment completed some time after it was started
C26_Witness ==
    /\ db # <<>>
    /\ db[1].status = "completed"
    /\ doc.status = "completed"
    /\ db[1].endTime > db[1].startTime
    /\ db[1].actualDuration > 0

----------------------------------------------------------------------------
(* The cache service (backend/src/utils/cache.js) over the Redis keyspace.  *)
(* A key is the sequence of its segments, the pieces between the ':' of the *)
(* key string; a JSON text is the record of the fields it spells out.       *)

MaxCacheCalls == 3     \* calls of the cache service in one behaviour

\* the expiration a set() without one gets, in seconds
DefaultExpiration == 3600

\* NODE_ENV || 'development'
NodeEnv == "development"

\* a field or a query parameter that was never assigned, as a template string renders it
Undef == "undefined"

\* the elements of a finite set in some order
RECURSIVE SeqOfSet(_)
SeqOfSet(S) ==
    IF S = {} THEN <<>>
    ELSE LET x == CHOOSE y \in S : TRUE IN <<x>> \o SeqOfSet(S \ {x})

\* JSON.stringify of an object: the text spells out the fields that are not undefined
JsonStringify(v) == [json |-> [f \in {g \in DOMAIN v : v[g] # Undef} |-> v[f]]]

\* JSON.parse of a text
JsonParse(text) == text.json

\* what a call of the service did: whether it raised to its caller, what it
\* returned, the keyspace it left
Outcome(raised, value, store) == [raised |-> raised, value |-> value, store |-> store]

\* the keyspace with key bound to entry, the keyspace without key
Bound(store, key, entry) ==
    [k \in DOMAIN store \cup {key} |-> IF k = key THEN entry ELSE store[k]]
Without(store, key) == [k \in DOMAIN store \ {key} |-> store[k]]

\* the Redis glob '*:type:*' against a key: the key string contains ':type:'
GlobMatch(pattern, key) == \E i \in 2..(Len(key) - 1) : key[i] = pattern[2]

\* CacheService.generateKey(type, identifier, params); params is the sequence
\* of the <<name, value>> entries of the object
generateKey(type, identifier, params) ==
    IF params = <<>> THEN <<NodeEnv, type, identifier>>
    ELSE <<NodeEnv, type, identifier, params>>

\* CacheService.get; throws: the client call or JSON.parse throws
getWithoutCatch(store, connected, throws, key) ==
    IF ~connected THEN Outcome(FALSE, Null, store)
    ELSE IF throws THEN Outcome(TRUE, Null, store)
    ELSE Outcome(FALSE, IF key \in DOMAIN store THEN JsonParse(store[key].value)
                        ELSE Null, store)
get(store, connected, throws, key) ==
    IF ~connected THEN Outcome(FALSE, Null, store)
    ELSE IF throws THEN Outcome(FALSE, Null, store)
    ELSE Outcome(FALSE, IF key \in DOMAIN store THEN JsonParse(store[key].value)
                        ELSE Null, store)

\* the ttl of a key that has no expiry
NoExpiry == -1

\* CacheService.set; throws: JSON.stringify or the client call throws
setWithoutExpiry(store, connected, throws, key, value, expiration) ==
    IF ~connected THEN Outcome(FALSE, FALSE, store)
    ELSE IF throws THEN Outcome(FALSE, FALSE, store)
    ELSE Outcome(FALSE, TRUE,
                 Bound(store, key, [value |-> JsonStringify(value), ttl |-> NoExpiry]))
setWithoutWrite(store, connected, throws, key, value, expiration) ==
    IF ~connected THEN Outcome(FALSE, FALSE, store)
    ELSE IF throws THEN Outcome(FALSE, FALSE, store)
    ELSE Outcome(FALSE, TRUE, store)
set(store, connected, throws, key, value, expiration) ==
    IF ~connected THEN Outcome(FALSE, FALSE, store)
    ELSE IF throws THEN Outcome(FALSE, FALSE, store)
    ELSE Outcome(FALSE, TRUE,
                 Bound(store, key, [value |-> JsonStringify(value), ttl |-> expiration]))

\* CacheService.del
delWithoutDelete(store, connected, throws, key) ==
    IF ~connected THEN Outcome(FALSE, FALSE, store)
    ELSE IF throws THEN Outcome(FALSE, FALSE, store)
    ELSE Outcome(FALSE, TRUE, store)
del(store, connected, throws, key) ==
    IF ~connected THEN Outcome(FALSE, FALSE, store)
    ELSE IF throws THEN Outcome(FALSE, FALSE, store)
    ELSE Outcome(FALSE, TRUE, Without(store, key))

\* CacheService.keys
keys(store, connected, throws, pattern) ==
    IF ~connected THEN Outcome(FALSE, <<>>, store)
    ELSE IF throws THEN Outcome(FALSE, <<>>, store)
    ELSE Outcome(FALSE, SeqOfSet({k \in DOMAIN store : GlobMatch(pattern, k)}), store)

\* the data of the cached routes at a version, as a response spells it out
DataAt == <<"rows-v1", "rows-v2", "rows-v3", "rows-v4", "rows-v5">>

\* the glob patterns of invalidateServiceCache
ServicesPattern == <<"*", "services", "*">>
AppointmentsPattern == <<"*", "appointments", "*">>

\* keys the callers of the service use: two service lists, one user profile
CallKeys ==
    { generateKey("services", "list", << <<"page", "1">>, <<"limit", "10">> >>),
      generateKey("services", "list",
                  << <<"category", "nursing">>, <<"page", "1">>, <<"limit", "10">> >>),
      generateKey("user", "u1", <<>>) }

\* values the callers of the service store
CallValues == { [success |-> "true", data |-> DataAt[1]],
                [success |-> "true", data |-> DataAt[1], next |-> Undef] }

\* the record of a call of the service
Called(op, key, r, throws) ==
    [ op |-> op, key |-> key, connected |-> isConnected,
      threw |-> isConnected /\ throws, raised |-> r.raised, ret |-> r.value,
      pre |-> redis ]

\* the frame of a call of the service
CallFrame ==
    /\ creqs < MaxCacheCalls
    /\ creqs' = creqs + 1
    /\ UNCHANGED <<isConnected, dataVer, tasks, invalClean, writes, nonCacheVars>>

ServiceGet(key, throws) ==
    /\ LET r == get(redis, isConnected, throws, key)
       IN  redis' = r.store /\ clast' = Called("get", key, r, throws)
    /\ CallFrame

ServiceSet(key, value, throws) ==
    /\ LET r == set(redis, isConnected, throws, key, value, DefaultExpiration)
       IN  redis' = r.store /\ clast' = Called("set", key, r, throws)
    /\ CallFrame

ServiceDel(key, throws) ==
    /\ LET r == del(redis, isConnected, throws, key)
       IN  redis' = r.store /\ clast' = Called("del", key, r, throws)
    /\ CallFrame

ServiceKeys(pattern, throws) ==
    /\ LET r == keys(redis, isConnected, throws, pattern)
       IN  redis' = r.store /\ clast' = Called("keys", pattern, r, throws)
    /\ CallFrame

\* the client's 'connect' event
Connect ==
    /\ ~isConnected
    /\ isConnected' = TRUE
    /\ UNCHANGED <<redis, dataVer, tasks, invalClean, clast, creqs, writes, nonCacheVars>>

\* the client's 'error' and 'end' events
Disconnect ==
    /\ isConnected
    /\ isConnected' = FALSE
    /\ UNCHANGED <<redis, dataVer, tasks, invalClean, clast, creqs, writes, nonCacheVars>>

\* the appointment model at rest: one new document, never saved
ApptIdle ==
    /\ now = 0
    /\ doc = NewDoc(30 * MsPerHour)
    /\ modified = {}
    /\ isNew = TRUE
    /\ db = <<>>
    /\ last = [ op |-> "new", to |-> "", by |-> "", amount |-> 0, result |-> "ok",
                ret |-> 0, pre |-> doc, preDb |-> <<>>, preNew |-> TRUE,
                preModified |-> {} ]
    /\ ticks = 0
    /\ ops = 0

InitService == CacheIdle /\ ApptIdle /\ IndexIdle /\ HealthIdle /\ ConcIdle /\ TtlIdle /\ UserRateIdle

NextService ==
    \/ Connect
    \/ Disconnect
    \/ \E k \in CallKeys, throws \in BOOLEAN : ServiceGet(k, throws)
    \/ \E k \in CallKeys, v \in CallValues, throws \in BOOLEAN : ServiceSet(k, v, throws)
    \/ \E k \in CallKeys, throws \in BOOLEAN : ServiceDel(k, throws)
    \/ \E p \in {ServicesPattern, AppointmentsPattern}, throws \in BOOLEAN :
          ServiceKeys(p, throws)

SpecService == InitService /\ [][NextService]_vars

\* C12: a call of get, set, del or keys never raises to its caller, whatever
\* the connection state; when the store is unreachable (the service is not
\* connected, or the client call throws) get returns null, set and del return
\* false, keys returns the empty list, and the keyspace is as it was.
C12_BestEffortWhenUnreachable ==
    clast.op \in {"get", "set", "del", "keys"} =>
        /\ ~clast.raised
        /\ (~clast.connected \/ clast.threw) =>
              /\ clast.op = "get" => clast.ret = Null
              /\ clast.op \in {"set", "del"} => clast.ret = FALSE
              /\ clast.op = "keys" => clast.ret = <<>>
              /\ redis = clast.pre

\* a get of a key that is stored, on a connected service whose client call throws
C12_Witness ==
    /\ clast.op = "get" /\ clast.connected /\ clast.threw
    /\ clast.key \in DOMAIN redis
    /\ clast.ret = Null

----------------------------------------------------------------------------
(* The cache middleware (middleware/cache: cacheMiddleware, serviceListCache, *)
(* invalidateCache) around the handlers of the service routes.              *)
(* A request is handled in one step; the invalidatePatterns() routines an   *)
(* answer starts run after it, one store call per step.                     *)

MaxCacheReqs == 3      \* requests through the cached routes in one behaviour
MaxWrites == 1         \* of them, write requests

\* the expiration of cacheMiddleware without options, of serviceListCache
MiddlewareExpiration == 300
ServiceListExpiration == 300

\* a query without parameters
NoQuery == [n \in {} |-> Undef]

\* GET /api/v1/services?category=nursing
ServiceListRequests ==
    { [route |-> "services", method |-> "GET", path |-> "/", user |-> Undef,
       query |-> [category |-> "nursing"]] }

\* a GET under cacheMiddleware() with its default options
GenericRequests ==
    { [route |-> "generic", method |-> "GET", path |-> "/stats", user |-> Undef,
       query |-> NoQuery] }

\* req.query[name]
Param(req, name) == IF name \in DOMAIN req.query THEN req.query[name] ELSE Undef

\* value || fallback
OrElse(value, fallback) == IF value = Undef THEN fallback ELSE value

\* { ...base, ...over }
Spread(base, over) ==
    [f \in DOMAIN base \cup DOMAIN over |-> IF f \in DOMAIN over THEN over[f] ELSE base[f]]

\* the keyGenerator of serviceListCache: undefined filters are deleted
serviceListKey(req) ==
    generateKey("services", "list",
        SelectSeq(<< <<"category", Param(req, "category")>>,
                     <<"search", Param(req, "search")>>,
                     <<"location", Param(req, "location")>>,
                     <<"priceRange", Param(req, "priceRange")>>,
                     <<"rating", Param(req, "rating")>>,
                     <<"sortBy", Param(req, "sortBy")>>,
                     <<"page", OrElse(Param(req, "page"), "1")>>,
                     <<"limit", OrElse(Param(req, "limit"), "10")>> >>,
                  LAMBDA e : e[2] # Undef))

\* the cache key of getServices: undefined parameters are spelled out
getServicesKey(req) ==
    generateKey("services", "list",
        << <<"category", Param(req, "category")>>,
           <<"search", Param(req, "search")>>,
           <<"minPrice", Param(req, "minPrice")>>,
           <<"maxPrice", Param(req, "maxPrice")>>,
           <<"rating", Param(req, "rating")>>,
           <<"popular", Param(req, "popular")>>,
           <<"page", OrElse(Param(req, "page"), "1")>>,
           <<"limit", OrElse(Param(req, "limit"), "10")>>,
           <<"sortBy", OrElse(Param(req, "sortBy"), "createdAt")>>,
           <<"sortOrder", OrElse(Param(req, "sortOrder"), "desc")>> >>)

\* generateDefaultKey: method:path:userId:base64(queryString)
generateDefaultKey(req) ==
    << req.method, req.path, OrElse(req.user, "anonymous"),
       [base64 |-> IF DOMAIN req.query # {} THEN JsonStringify(req.query)
                   ELSE [text |-> ""]] >>

\* the key and the expiration cacheMiddleware uses on a route
cacheKey(req) ==
    IF req.route = "services" THEN serviceListKey(req) ELSE generateDefaultKey(req)
expiration(req) ==
    IF req.route = "services" THEN ServiceListExpiration ELSE MiddlewareExpiration

\* the test of the res.json overrides: data && data.success !== false && res.statusCode < 400
IndicatesSuccessByStatus(status, data) == data # Null /\ status < 400
IndicatesSuccess(status, data) ==
    /\ data # Null
    /\ ("success" \in DOMAIN data => data.success # "false")
    /\ status < 400

\* what a handler passed to res.json, the keyspace it left, whether a cache
\* call raised in it
Handled(status, data, store, raised) ==
    [status |-> status, data |-> data, store |-> store, raised |-> raised]

\* getServices; outcome: what the database holds or does
getServices(store, connected, req, outcome, ver) ==
    LET key == getServicesKey(req)
        g == get(store, connected, FALSE, key)
        failure == [success |-> "false", error |-> "Error fetching services"]
        responseData == [success |-> "true", data |-> DataAt[ver]]
        s == set(store, connected, FALSE, key, responseData, 300)
    IN  IF g.raised THEN Handled(500, failure, store, TRUE)
        ELSE IF g.value # Null
        THEN Handled(200, Spread(g.value, [cached |-> "true"]), store, FALSE)
        ELSE IF outcome = "error" THEN Handled(500, failure, store, FALSE)
        ELSE IF outcome = "empty" THEN Handled(200, responseData, store, FALSE)
        ELSE IF s.raised THEN Handled(500, failure, store, TRUE)
        ELSE Handled(200, responseData, s.store, FALSE)

\* what the database of getServices holds or does: rows, nothing, an error
DbOutcomes == {"rows", "empty", "error"}

\* what the handler of the generic route passes to res.status(..).json(..)
GenericAnswers(ver) ==
    { [status |-> 200, data |-> [success |-> "true", data |-> DataAt[ver]]],
      [status |-> 200, data |-> [success |-> "true", data |-> DataAt[ver], next |-> Undef]],
      [status |-> 200, data |-> [data |-> DataAt[ver]]],
      [status |-> 200, data |-> [success |-> "false", message |-> "not available"]],
      [status |-> 400, data |-> [message |-> "bad request"]] }

\* the answer on a hit: the handler is not called
hitThenNext(cachedData) ==
    [ status |-> 200, xcache |-> "HIT", calls |-> 1,
      body |-> JsonStringify(Spread([success |-> "true", cached |-> "true",
                                     timestamp |-> "now"], cachedData)) ]
hit(cachedData) ==
    [ status |-> 200, xcache |-> "HIT", calls |-> 0,
      body |-> JsonStringify(Spread([success |-> "true", cached |-> "true",
                                     timestamp |-> "now"], cachedData)) ]

\* the answer on a miss: the overridden res.json passes the handler's data on
missAnnotated(h) ==
    [ status |-> h.status, xcache |-> "MISS", calls |-> 1,
      body |-> JsonStringify(Spread(h.data, [cached |-> "false"])) ]
miss(h) ==
    [ status |-> h.status, xcache |-> "MISS", calls |-> 1, body |-> JsonStringify(h.data) ]

\* a request through cacheMiddleware; h: what the handler does if it is called
Read(req, h) ==
    /\ creqs < MaxCacheReqs
    /\ LET key == cacheKey(req)
           g == get(redis, isConnected, FALSE, key)
           store == IndicatesSuccess(h.status, h.data)
           s == IF store THEN set(h.store, isConnected, FALSE, key, h.data,
                                   expiration(req))
                ELSE Outcome(FALSE, FALSE, h.store)
           answer == IF g.raised
                     THEN [status |-> h.status, xcache |-> "NONE", calls |-> 1,
                           body |-> JsonStringify(h.data)]
                     ELSE IF g.value # Null THEN hit(g.value) ELSE miss(h)
       IN  /\ redis' = IF g.raised THEN h.store ELSE IF g.value # Null THEN redis ELSE s.store
           /\ clast' = [ op |-> "read", req |-> req, key |-> key,
                         connected |-> isConnected,
                         cached |-> g.value,
                         handled |-> IF answer.calls = 0 THEN Null
                                     ELSE [status |-> h.status, data |-> h.data],
                         status |-> answer.status, body |-> answer.body,
                         xcache |-> answer.xcache, calls |-> answer.calls,
                         setCalled |-> answer.xcache = "MISS" /\ store,
                         stored |-> answer.xcache = "MISS" /\ store /\ s.value,
                         raised |-> answer.calls > 0 /\ h.raised,
                         ver |-> dataVer, settled |-> tasks = EmptyBag /\ invalClean,
                         post |-> redis' ]
    /\ creqs' = creqs + 1
    /\ invalClean' = (invalClean /\ tasks = <<>>)
    /\ UNCHANGED <<isConnected, dataVer, tasks, writes, nonCacheVars>>

\* GET /api/v1/services: serviceListCache, then getServices
ReadServices(req, outcome) ==
    Read(req, getServices(redis, isConnected, req, outcome, dataVer))

\* a GET under cacheMiddleware(): the handler answers what it likes
ReadGeneric(req, a) == Read(req, Handled(a.status, a.data, redis, FALSE))

\* the patterns of invalidateServiceCache
InvalidatePatterns == <<ServicesPattern, AppointmentsPattern>>

\* the calls of invalidatePatterns() one res.json(data) makes: express's json
\* calls this.send, send calls this.end, each through its override
InvalidationCalls(status, data) ==
      (IF status < 400 THEN 1 ELSE 0)
    + (IF status < 400 THEN 1 ELSE 0)
    + (IF IndicatesSuccess(status, data) THEN 1 ELSE 0)

\* what the handler of the write route passes to res.status(..).json(..)
WriteAnswers ==
    { [status |-> 201, data |-> [success |-> "true", message |-> "booked"]],
      [status |-> 200, data |-> [success |-> "false", message |-> "not booked"]],
      [status |-> 400, data |-> [success |-> "false", message |-> "bad request"]] }

\* POST /api/v1/services/:id/book: invalidateServiceCache, then the handler;
\* an answer of success commits the write.  The model takes a write when the
\* routines of the one before have finished.
Write(a) ==
    /\ creqs < MaxCacheReqs
    /\ writes < MaxWrites
    /\ tasks = EmptyBag
    /\ LET committed == IndicatesSuccess(a.status, a.data)
           n == InvalidationCalls(a.status, a.data)
           routine == [pats |-> InvalidatePatterns, dels |-> <<>>, afterSuccess |-> committed]
       IN  /\ tasks' = IF n = 0 THEN tasks ELSE tasks (+) [t \in {routine} |-> n]
           /\ dataVer' = IF committed THEN dataVer + 1 ELSE dataVer
           /\ invalClean' = IF committed THEN TRUE ELSE invalClean
           /\ clast' = [ op |-> "write", status |-> a.status, body |-> JsonStringify(a.data),
                         calls |-> 1, started |-> n ]
    /\ creqs' = creqs + 1
    /\ writes' = writes + 1
    /\ UNCHANGED <<isConnected, redis, nonCacheVars>>

\* the routines in flight after routine t took a step and became u
Stepped(t, u) ==
    IF u.pats = <<>> /\ u.dels = <<>> THEN tasks (-) SetToBag({t})
    ELSE (tasks (-) SetToBag({t})) (+) SetToBag({u})

\* invalidatePatterns: const keys = await cacheService.keys(pattern)
InvalKeys(t) ==
    /\ BagIn(t, tasks)
    /\ t.dels = <<>>
    /\ t.pats # <<>>
    /\ LET r == keys(redis, isConnected, FALSE, Head(t.pats))
       IN  /\ tasks' = Stepped(t, [t EXCEPT !.pats = Tail(@), !.dels = r.value])
           /\ invalClean' = (invalClean /\ isConnected)
    /\ UNCHANGED <<isConnected, redis, dataVer, clast, creqs, writes, nonCacheVars>>

\* invalidatePatterns: await cacheService.del(key)
InvalDel(t) ==
    /\ BagIn(t, tasks)
    /\ t.dels # <<>>
    /\ LET r == del(redis, isConnected, FALSE, Head(t.dels))
       IN  /\ redis' = r.store
           /\ tasks' = Stepped(t, [t EXCEPT !.dels = Tail(@)])
           /\ invalClean' = (invalClean /\ r.value)
           /\ clast' = [ op |-> "invalidate", key |-> Head(t.dels),
                         deleted |-> r.value /\ Head(t.dels) \in DOMAIN redis,
                         afterSuccess |-> t.afterSuccess ]
    /\ UNCHANGED <<isConnected, dataVer, creqs, writes, nonCacheVars>>

InitCache == CacheIdle /\ ApptIdle /\ IndexIdle /\ HealthIdle /\ ConcIdle /\ TtlIdle /\ UserRateIdle

NextCache ==
    \/ Connect
    \/ Disconnect
    \/ \E req \in ServiceListRequests, o \in DbOutcomes : ReadServices(req, o)
    \/ \E req \in GenericRequests, a \in GenericAnswers(dataVer) : ReadGeneric(req, a)
    \/ \E a \in WriteAnswers : Write(a)
    \/ \E t \in BagToSet(tasks) : InvalKeys(t)
    \/ \E t \in BagToSet(tasks) : InvalDel(t)

SpecCache == InitCache /\ [][NextCache]_vars

----------------------------------------------------------------------------
(* Properties of the cache middleware *)

\* C13: a request through cacheMiddleware while the cache service is not
\* connected is passed through: the handler is called exactly once, the
\* status and the body the caller receives are the ones the handler passed
\* to res.json, and no cache call surfaces an error in the request.
C13_PassThroughWhenUnavailable ==
    (clast.op = "read" /\ ~clast.connected) =>
        /\ clast.calls = 1
        /\ clast.status = clast.handled.status
        /\ clast.body = JsonStringify(clast.handled.data)
        /\ ~clast.raised

\* the services list is stored under the key of the request, the service is
\* not connected, and getServices answers from the database
C13_Witness ==
    /\ clast.op = "read" /\ ~clast.connected
    /\ clast.req.route = "services"
    /\ clast.key \in DOMAIN redis
    /\ clast.status = 200 /\ clast.calls = 1

\* C14: when the lookup of cacheMiddleware finds an entry, the answer carries
\* X-Cache: HIT, spells out every field of the cached payload with its value,
\* and the handler is not called; when it finds none, the handler is called
\* exactly once and the answer carries X-Cache: MISS.
C14_HitSkipsHandlerMissCallsItOnce ==
    clast.op = "read" =>
        /\ clast.cached # Null =>
              /\ clast.xcache = "HIT"
              /\ clast.calls = 0
              /\ \A f \in DOMAIN clast.cached : JsonParse(clast.body)[f] = clast.cached[f]
        /\ clast.cached = Null =>
              /\ clast.xcache = "MISS"
              /\ clast.calls = 1

\* a hit on the generic route
C14_Witness ==
    /\ clast.op = "read" /\ clast.req.route = "generic"
    /\ clast.xcache = "HIT" /\ clast.calls = 0

\* C15: on a miss the middleware hands the handler's data to the cache exactly
\* when the status is below 400 and the body's success is not false; with the
\* service connected the data is then stored under the key of the request
\* with the expiration of the route, and a failed answer leaves the key
\* unset.  No entry of the keyspace is a body with success false, and no hit
\* answers one.
C15_OnlySuccessIsCached ==
    /\ (clast.op = "read" /\ clast.xcache = "MISS") =>
          LET ok == /\ clast.handled.status < 400
                    /\ ~("success" \in DOMAIN clast.handled.data
                           /\ clast.handled.data.success = "false")
          IN  /\ clast.setCalled <=> ok
              /\ clast.stored <=> (ok /\ clast.connected)
              /\ clast.stored =>
                    clast.post[clast.key] =
                        [ value |-> JsonStringify(clast.handled.data),
                          ttl |-> IF clast.req.route = "services" THEN ServiceListExpiration
                                  ELSE MiddlewareExpiration ]
              /\ (~ok /\ clast.connected) => clast.key \notin DOMAIN clast.post
    /\ \A k \in DOMAIN redis :
          LET v == JsonParse(redis[k].value)
          IN  "success" \in DOMAIN v => v.success # "false"
    /\ (clast.op = "read" /\ clast.xcache = "HIT") =>
          JsonParse(clast.body).success # "false"

\* a handler answers 200 with success false on a connected service: nothing
\* is stored under the key of the request
C15_Witness ==
    /\ clast.op = "read" /\ clast.xcache = "MISS" /\ clast.connected
    /\ clast.handled.status = 200
    /\ "success" \in DOMAIN clast.handled.data
    /\ clast.handled.data.success = "false"
    /\ ~clast.stored
    /\ clast.key \notin DOMAIN redis

\* a miss whose answer was stored, and at once the same request again, the
\* service connected and the keyspace as the miss left it
C16_MissThenSameRead ==
    /\ clast.op = "read" /\ clast.xcache = "MISS" /\ clast.stored
    /\ redis = clast.post
    /\ isConnected
    /\ creqs' = creqs + 1
    /\ clast'.op = "read"
    /\ clast'.req = clast.req

\* C16 as the specification states it: a miss followed at once by the same
\* request is a hit whose body is the body of the miss.
C16_HitBodyIsMissBody ==
    [][C16_MissThenSameRead => (clast'.xcache = "HIT" /\ clast'.body = clast.body)]_vars

\* C16: a miss whose answer was stored, followed at once by the same request
\* (same method, path, caller and query), is a hit that does not call the
\* handler; its body spells out success: true, cached: true and a timestamp,
\* overlaid by the fields of the body of the miss.
C16_HitBodyIsAnnotatedMissBody ==
    [][C16_MissThenSameRead =>
          /\ clast'.xcache = "HIT"
          /\ clast'.calls = 0
          /\ JsonParse(clast'.body) =
                Spread([success |-> "true", cached |-> "true", timestamp |-> "now"],
                       JsonParse(clast.body))]_vars

\* a hit on the services route of an entry a miss stored from the answer of
\* getServices out of the database
C16_Witness ==
    /\ clast.op = "read" /\ clast.req.route = "services"
    /\ clast.xcache = "HIT"
    /\ "cached" \notin DOMAIN clast.cached
    /\ JsonParse(clast.body).cached = "true"
    /\ JsonParse(clast.body).data = clast.cached.data

\* C17 as the specification states it: a read under a services key is never
\* answered from an entry older than the last committed write.
C17_NoPreWriteEntryServed ==
    (clast.op = "read" /\ clast.xcache = "HIT" /\ GlobMatch(ServicesPattern, clast.key)) =>
        clast.cached.data = DataAt[clast.ver]

\* C17: once the invalidation routines of a committed write have finished,
\* every store call of theirs having succeeded and no read having run while
\* one was in flight, no services key holds an entry older than the write,
\* and a read under a services key is a miss or is answered from an entry
\* stored after the write.
C17_NoPreWriteEntryAfterInvalidation ==
    /\ (tasks = EmptyBag /\ invalClean) =>
          \A k \in DOMAIN redis :
              GlobMatch(ServicesPattern, k) =>
                  JsonParse(redis[k].value).data = DataAt[dataVer]
    /\ (/\ clast.op = "read" /\ clast.settled /\ clast.xcache = "HIT"
        /\ GlobMatch(ServicesPattern, clast.key)) =>
          clast.cached.data = DataAt[clast.ver]

\* the routines of a committed write have finished undisturbed, and the last
\* deletion removed an entry of a services key
C17_Witness ==
    /\ clast.op = "invalidate" /\ clast.deleted /\ clast.afterSuccess
    /\ GlobMatch(ServicesPattern, clast.key)
    /\ tasks = EmptyBag /\ invalClean
    /\ dataVer = 2

\* C18 as the specification states it: a routine of the invalidation wrapper
\* deletes a key only after an answer of success.
C18_NoDeletionAfterFailure ==
    (clast.op = "invalidate" /\ clast.deleted) => clast.afterSuccess

\* C27: a response of success sent with res.json through invalidateCache
\* starts the invalidatePatterns() routine exactly once.
C27_InvalidationStartedOnce ==
    ( /\ clast.op = "write"
      /\ clast.status < 400
      /\ "success" \in DOMAIN clast.body.json => clast.body.json.success # "false" )
        => clast.started = 1

----------------------------------------------------------------------------
(* Rate limiting: rateLimitMiddleware (middleware/cache) over                *)
(* CacheService.incrementRateLimit.  The counters are keys of the same Redis *)
(* keyspace; a key without expiry has the ttl Redis reports for it, -1.      *)

MaxRateReqs == 4       \* requests through rateLimitMiddleware in one behaviour
ListLimit == 2         \* maxRequests of the list route, scaled down from 100
BookLimit == 1         \* maxRequests of the booking route, scaled down from 10

\* windowMs of the service routes
WindowMs == 15 * 60 * 1000

\* req.ip of the callers
Ips == {"10.0.0.1", "10.0.0.2"}

\* where a client call of incrementRateLimit throws, if one does
IncrFailures == {"none", "incr", "expire"}

\* CacheService.incrementRateLimit(identifier, window)
incrementRateLimit(store, connected, throws, identifier, window) ==
    LET key == generateKey("ratelimit", identifier, <<>>)
        current == (IF key \in DOMAIN store THEN store[key].value ELSE 0) + 1
        incremented ==
            Bound(store, key,
                  [ value |-> current,
                    ttl |-> IF key \in DOMAIN store THEN store[key].ttl ELSE NoExpiry ])
    IN  IF ~connected THEN Outcome(FALSE, 1, store)
        ELSE IF throws = "incr" THEN Outcome(FALSE, 1, store)
        ELSE IF current = 1
        THEN IF throws = "expire" THEN Outcome(FALSE, 1, incremented)
             ELSE Outcome(FALSE, current, [incremented EXCEPT ![key].ttl = window])
        ELSE Outcome(FALSE, current, incremented)

\* the decision of rateLimitMiddleware: currentCount > maxRequests rejects
RejectsAtLimit(currentCount, maxRequests) == currentCount >= maxRequests
Rejects(currentCount, maxRequests) == currentCount > maxRequests

\* a request through rateLimitMiddleware({ maxRequests, windowMs })
RateRequest(ip, maxRequests, throws) ==
    /\ creqs < MaxRateReqs
    /\ LET key == generateKey("ratelimit", ip, <<>>)
           r == incrementRateLimit(redis, isConnected, throws, ip, WindowMs \div 1000)
           rejected == Rejects(r.value, maxRequests)
       IN  /\ redis' = r.store
           /\ clast' = [ op |-> "limit", ip |-> ip, key |-> key, max |-> maxRequests,
                         connected |-> isConnected,
                         threw |-> IF isConnected THEN throws ELSE "none",
                         count |-> r.value,
                         status |-> IF rejected THEN 429 ELSE 0,
                         body |-> IF rejected
                                  THEN [ success |-> "false",
                                         message |-> "Too many requests",
                                         retryAfter |-> WindowMs ]
                                  ELSE Null,
                         calls |-> IF rejected THEN 0 ELSE 1,
                         pre |-> redis, post |-> redis' ]
    /\ creqs' = creqs + 1
    /\ UNCHANGED <<isConnected, dataVer, tasks, invalClean, writes, nonCacheVars>>

\* the window of a counter ends: Redis drops a key whose expiry elapsed
WindowEnds(key) ==
    /\ key \in DOMAIN redis
    /\ redis[key].ttl # NoExpiry
    /\ redis' = Without(redis, key)
    /\ UNCHANGED <<isConnected, dataVer, tasks, invalClean, clast, creqs, writes, nonCacheVars>>

InitRate == CacheIdle /\ ApptIdle /\ IndexIdle /\ HealthIdle /\ ConcIdle /\ TtlIdle /\ UserRateIdle

NextRate ==
    \/ Connect
    \/ Disconnect
    \/ \E ip \in Ips, m \in {ListLimit, BookLimit}, throws \in IncrFailures :
          RateRequest(ip, m, throws)
    \/ \E k \in DOMAIN redis : WindowEnds(k)

SpecRate == InitRate /\ [][NextRate]_vars

\* the counter a keyspace holds for a caller, 0 when it holds none
C19_Counter(store, key) == IF key \in DOMAIN store THEN store[key].value ELSE 0

\* C19: a request through rateLimitMiddleware whose increment the store takes
\* raises the counter of its caller by one and leaves every other key alone;
\* the request is admitted, and the handler called once, exactly when the
\* count the increment reports is at most maxRequests; otherwise the answer
\* is 429 with retryAfter = windowMs and the handler is not called.  When the
\* store does not take the increment the count is reported as 1.
C19_AdmitsUpToMaxRequests ==
    clast.op = "limit" =>
        /\ (clast.connected /\ clast.threw # "incr") =>
              /\ C19_Counter(clast.post, clast.key) = C19_Counter(clast.pre, clast.key) + 1
              /\ clast.threw = "none" => clast.count = C19_Counter(clast.post, clast.key)
              /\ \A k \in (DOMAIN clast.pre \cup DOMAIN clast.post) \ {clast.key} :
                    k \in DOMAIN clast.pre /\ k \in DOMAIN clast.post
                      /\ clast.post[k] = clast.pre[k]
        /\ (~clast.connected \/ clast.threw = "incr") =>
              clast.count = 1 /\ clast.post = clast.pre
        /\ clast.count <= clast.max =>
              clast.calls = 1 /\ clast.status # 429
        /\ clast.count > clast.max =>
              /\ clast.calls = 0
              /\ clast.status = 429
              /\ clast.body.retryAfter = WindowMs
              /\ clast.body.success = "false"

\* the request that takes the counter of its caller past the limit of the
\* list route is rejected
C19_Witness ==
    /\ clast.op = "limit" /\ clast.connected /\ clast.threw = "none"
    /\ clast.max = ListLimit
    /\ clast.count = ListLimit + 1
    /\ clast.status = 429 /\ clast.calls = 0

\* C28: every counter key incrementRateLimit created has a time to live of at
\* most the window, whatever call of the store failed, so Redis drops it when
\* the window has elapsed.
C28_EveryCounterExpires ==
    \A k \in DOMAIN redis :
        redis[k].ttl # NoExpiry /\ redis[k].ttl <= WindowMs \div 1000

----------------------------------------------------------------------------
(* The index optimizer (backend/src/utils/dbOptimization.js): createIndexes  *)
(* over the indexes of the database.  A key pattern is the sequence of its  *)
(* <<field, direction>> entries; a run of createIndexes is one step.        *)

MaxRuns == 2           \* runs of createIndexes in one behaviour

\* the indexes createIndexes asks for, in the order it asks for them
Targets ==
    << [ coll |-> "Service", name |-> "service_category_active_rating",
         key |-> << <<"category", 1>>, <<"isActive", 1>>, <<"rating.average", -1>> >> ],
       [ coll |-> "Service", name |-> "service_price_active",
         key |-> << <<"price", 1>>, <<"isActive", 1>> >> ],
       [ coll |-> "Service", name |-> "service_popular_active_created",
         key |-> << <<"isPopular", 1>>, <<"isActive", 1>>, <<"createdAt", -1>> >> ],
       [ coll |-> "User", name |-> "user_phone", key |-> << <<"profile.phone", 1>> >> ],
       [ coll |-> "User", name |-> "user_active_userType",
         key |-> << <<"isActive", 1>>, <<"userType", 1>> >> ],
       [ coll |-> "Review", name |-> "review_service_rating_created",
         key |-> << <<"service", 1>>, <<"rating", -1>>, <<"createdAt", -1>> >> ],
       [ coll |-> "Review", name |-> "review_user_created",
         key |-> << <<"user", 1>>, <<"createdAt", -1>> >> ],
       [ coll |-> "Appointment", name |-> "appointment_user_date_status",
         key |-> << <<"user", 1>>, <<"scheduledDate", -1>>, <<"status", 1>> >> ],
       [ coll |-> "Appointment", name |-> "appointment_provider_date_status",
         key |-> << <<"provider", 1>>, <<"scheduledDate", 1>>, <<"status", 1>> >> ],
       [ coll |-> "Appointment", name |-> "appointment_service_status_date",
         key |-> << <<"service", 1>>, <<"status", 1>>, <<"scheduledDate", -1>> >> ] >>

\* JSON.stringify of a key pattern: the text keeps the order of the entries
KeyText(key) == [json |-> key]

\* getExistingIndexKeys(collection); unlisted: the collection whose indexes() throws
getExistingIndexKeysEmpty(held, coll, unlisted) == {}
getExistingIndexKeys(held, coll, unlisted) ==
    IF coll = unlisted THEN {} ELSE {KeyText(i.key) : i \in {j \in held : j.coll = coll}}

\* what the database does to one createIndex: nothing, error 85, another error
Faults ==
    {[at |-> 0, kind |-> "none"]}
      \cup {[at |-> i, kind |-> k] : i \in {2, 7, 9}, k \in {"conflict", "error"}}

\* the collections whose indexes() may throw in a run, or none
Unlisted == {"none", "Service", "Appointment"}

\* createIndexes from target i on; st: the indexes of the database, the
\* targets createIndex was called for, whether a database call failed, whether
\* a createIndex failed with an error tryCreateIndex rethrows, the catch that
\* took over ("outer", "inner" or none), whether the error was logged
RECURSIVE Ensure(_, _, _, _, _)
Ensure(i, st, reg, unlisted, fault) ==
    IF i > Len(Targets) THEN st
    ELSE LET t == Targets[i]
             skipped == \/ st.abort = "outer"
                        \/ t.coll = "Appointment" /\ (st.abort = "inner" \/ ~reg)
             present == KeyText(t.key) \in getExistingIndexKeys(st.db, t.coll, unlisted)
             called == [st EXCEPT !.issued = @ \cup {i}]
             next ==
                 IF skipped \/ present THEN st
                 ELSE IF fault.at = i /\ fault.kind = "conflict"
                 THEN [called EXCEPT !.faulted = TRUE]
                 ELSE IF fault.at = i /\ fault.kind = "error"
                 THEN IF t.coll = "Appointment"
                      THEN [called EXCEPT !.faulted = TRUE, !.errored = TRUE,
                                          !.abort = "inner"]
                      ELSE [called EXCEPT !.faulted = TRUE, !.errored = TRUE,
                                          !.abort = "outer", !.logged = TRUE]
                 ELSE IF \E j \in st.db : j.coll = t.coll /\ j.key = t.key
                 THEN called
                 ELSE [called EXCEPT !.db = @ \cup {t}]
         IN  Ensure(i + 1, next, reg, unlisted, fault)

\* createIndexes(): the record of the run
createIndexes(flag, held, reg, unlisted, fault) ==
    LET start == [ db |-> held, issued |-> {}, faulted |-> unlisted # "none",
                   errored |-> FALSE, abort |-> "none", logged |-> FALSE ]
        end == Ensure(1, start, reg, unlisted, fault)
    IN  IF flag
        THEN [ flag |-> TRUE, indexCreated |-> TRUE, issued |-> {}, faulted |-> FALSE,
               errored |-> FALSE, logged |-> FALSE, raised |-> FALSE, after |-> held ]
        ELSE [ flag |-> FALSE, indexCreated |-> end.abort # "outer",
               issued |-> end.issued, faulted |-> end.faulted, errored |-> end.errored,
               logged |-> end.logged, raised |-> FALSE, after |-> end.db ]

\* a call of createIndexes()
RunCreateIndexes(unlisted, fault) ==
    /\ Len(hist) < MaxRuns
    /\ LET r == createIndexes(indexCreated, idx, registered, unlisted, fault)
       IN  /\ indexCreated' = r.indexCreated
           /\ idx' = r.after
           /\ hist' = Append(hist, r)
    /\ UNCHANGED <<registered, nonIdxVars>>

\* the process starts again: a new DatabaseOptimizer
Restart ==
    /\ indexCreated
    /\ indexCreated' = FALSE
    /\ UNCHANGED <<idx, registered, hist, nonIdxVars>>

\* the indexes the database holds before the first run: none, one of the
\* targets, an index of another name on the key of a target, all the targets
InitialIndexes ==
    { {}, {Targets[1]},
      {[coll |-> "Service", name |-> "price_1_isActive_1", key |-> Targets[2].key]},
      {Targets[i] : i \in 1..Len(Targets)} }

InitIndex ==
    /\ indexCreated = FALSE
    /\ idx \in InitialIndexes
    /\ registered \in BOOLEAN
    /\ hist = <<>>
    /\ CacheIdle
    /\ ApptIdle
    /\ HealthIdle
    /\ ConcIdle
    /\ TtlIdle
    /\ UserRateIdle

NextIndex ==
    \/ \E u \in Unlisted, f \in Faults : RunCreateIndexes(u, f)
    \/ Restart

SpecIndex == InitIndex /\ [][NextIndex]_vars

\* C20: no run of createIndexes raises to its caller, and the database never
\* holds two indexes of one collection on the same key pattern; while no
\* database call of a run has failed, of two runs in succession neither logs
\* an error, the second calls createIndex for nothing, and the indexes after
\* the second are the indexes after the first.
C20_CreateIndexesIdempotent ==
    /\ \A i \in 1..Len(hist) : ~hist[i].raised
    /\ \A a, b \in idx : (a.coll = b.coll /\ a.key = b.key) => a = b
    /\ \A i \in 1..(Len(hist) - 1) :
          (\A j \in 1..(i + 1) : ~hist[j].faulted) =>
              /\ ~hist[i].logged /\ ~hist[i + 1].logged
              /\ hist[i + 1].issued = {}
              /\ hist[i + 1].after = hist[i].after

\* a first run that creates indexes, the process started again, and a second
\* run that lists the collections and finds nothing to create
C20_Witness ==
    /\ Len(hist) = 2
    /\ ~hist[1].faulted /\ ~hist[2].faulted
    /\ hist[1].issued # {}
    /\ ~hist[2].flag
    /\ hist[2].issued = {}
    /\ idx = hist[1].after

\* C21: a run of createIndexes in which a createIndex fails with an error
\* other than an index conflict raises that error to its caller and logs it,
\* whatever the collection of the index.
C21_OtherErrorsSurfacedAndLogged ==
    \A i \in 1..Len(hist) : hist[i].errored => (hist[i].raised /\ hist[i].logged)

----------------------------------------------------------------------------
(* The health checker (utils/monitoring: HealthChecker).  A runCheck races  *)
(* the promise of its check function against a setTimeout; the timers of    *)
(* the event loop run when they are due.                                    *)

MaxHealthTicks == 6    \* advances of Date.now() in one behaviour

\* one advance of Date.now(): a second, in milliseconds
HealthTickMs == MsPerMinute \div 60

\* options.timeout || 5000
DefaultTimeout == 5000

\* the names registered by registerDefaultHealthChecks that the model keeps
CheckNames == {"database", "redis"}

\* the options passed to register(): those of the default checks, and a
\* critical check with a timeout of 0
RegisterOptions ==
    { [critical |-> TRUE, timeout |-> 3000], [critical |-> FALSE, timeout |-> 2000],
      [critical |-> FALSE], [critical |-> TRUE, timeout |-> 0] }

\* register(name, checkFunction, options): the entry of the checks map
register(options) ==
    [ timeout |-> IF "timeout" \in DOMAIN options /\ options.timeout # 0
                  THEN options.timeout ELSE DefaultTimeout,
      critical |-> IF "critical" \in DOMAIN options THEN options.critical ELSE FALSE ]

\* the result object runCheck builds
Result(name, status, duration, error) ==
    [name |-> name, status |-> status, duration |-> duration, error |-> error]

\* Promise.race and what follows it in runCheck: the first of the two promises
\* to settle decides the result, a later one changes nothing
raceLastWins(run, name, settledBy, t) ==
    [run EXCEPT !.state = "settled",
                !.result = IF settledBy = "resolved"
                           THEN Result(name, "healthy", t - run.startTime, "none")
                           ELSE IF settledBy = "rejected"
                           THEN Result(name, "unhealthy", t - run.startTime, "check failed")
                           ELSE Result(name, "unhealthy", t - run.startTime,
                                       "Health check timeout")]
race(run, name, settledBy, t) ==
    IF run.state # "pending" THEN run
    ELSE [run EXCEPT !.state = "settled",
                     !.result = IF settledBy = "resolved"
                                THEN Result(name, "healthy", t - run.startTime, "none")
                                ELSE IF settledBy = "rejected"
                                THEN Result(name, "unhealthy", t - run.startTime,
                                            "check failed")
                                ELSE Result(name, "unhealthy", t - run.startTime,
                                            "Health check timeout")]

\* runAllChecks once every runCheck has returned: the summary
overall(checkResults, registry) ==
    LET criticalFailures ==
            {n \in DOMAIN checkResults :
                checkResults[n].status # "healthy" /\ registry[n].critical}
    IN  IF Cardinality(criticalFailures) > 0 THEN "unhealthy" ELSE "healthy"

runAllChecks(checkResults, registry) ==
    [ status |-> overall(checkResults, registry),
      checks |-> checkResults,
      total |-> Cardinality(DOMAIN checkResults),
      healthy |-> Cardinality({n \in DOMAIN checkResults :
                                  checkResults[n].status = "healthy"}),
      unhealthy |-> Cardinality({n \in DOMAIN checkResults :
                                    checkResults[n].status = "unhealthy"}),
      failed |-> Cardinality({n \in DOMAIN checkResults :
                                 checkResults[n].status = "failed"}) ]

\* a runCheck that was not started
NoRun ==
    [ state |-> "idle", startTime |-> 0, check |-> "idle", finishedAt |-> NotYet,
      timer |-> "none", result |-> Null ]

\* one of the two promises of a runCheck settles at time t: the result is
\* stored in the registry, and Promise.all of runAllChecks returns with the last
Settled(name, settledBy, change) ==
    LET run == race(change, name, settledBy, hnow)
        runs == [hrun EXCEPT ![name] = run]
        results == [n \in CheckNames |-> runs[n].result]
    IN  /\ hrun' = runs
        /\ lastResult' = [lastResult EXCEPT ![name] = run.result]
        /\ summary' = IF summary = Null /\ \A n \in CheckNames : runs[n].state = "settled"
                       THEN runAllChecks(results, checks)
                       ELSE summary
        /\ UNCHANGED <<hnow, checks, nonHealthVars>>

\* runAllChecks(): a runCheck is started for every registered name
RunAllChecks ==
    /\ \A n \in CheckNames : hrun[n].state # "pending" /\ hrun[n].timer # "armed"
    /\ hnow < MaxHealthTicks * HealthTickMs
    /\ hrun' = [n \in CheckNames |->
                   [ state |-> "pending", startTime |-> hnow, check |-> "running",
                     finishedAt |-> NotYet, timer |-> "armed", result |-> Null ]]
    /\ summary' = Null
    /\ UNCHANGED <<hnow, checks, lastResult, nonHealthVars>>

\* the promise of a check function resolves
CheckResolves(name) ==
    /\ hrun[name].check = "running"
    /\ Settled(name, "resolved",
               [hrun[name] EXCEPT !.check = "resolved", !.finishedAt = hnow])

\* the promise of a check function rejects
CheckRejects(name) ==
    /\ hrun[name].check = "running"
    /\ Settled(name, "rejected",
               [hrun[name] EXCEPT !.check = "rejected", !.finishedAt = hnow])

\* the setTimeout callback of a runCheck rejects the timeout promise
TimerFires(name) ==
    /\ hrun[name].timer = "armed"
    /\ hnow >= hrun[name].startTime + checks[name].timeout
    /\ Settled(name, "timeout", [hrun[name] EXCEPT !.timer = "fired"])

\* Date.now() advances; a timer that is due runs before it does
HealthTick ==
    /\ hnow < MaxHealthTicks * HealthTickMs
    /\ \A n \in CheckNames :
          hrun[n].timer = "armed" => hnow < hrun[n].startTime + checks[n].timeout
    /\ hnow' = hnow + HealthTickMs
    /\ UNCHANGED <<checks, lastResult, hrun, summary, nonHealthVars>>

InitHealth ==
    /\ hnow = 0
    /\ checks \in [CheckNames -> {register(o) : o \in RegisterOptions}]
    /\ lastResult = [n \in CheckNames |-> Null]
    /\ hrun = [n \in CheckNames |-> NoRun]
    /\ summary = Null
    /\ CacheIdle
    /\ ApptIdle
    /\ IndexIdle
    /\ ConcIdle
    /\ TtlIdle
    /\ UserRateIdle

NextHealth ==
    \/ RunAllChecks
    \/ \E n \in CheckNames : CheckResolves(n)
    \/ \E n \in CheckNames : CheckRejects(n)
    \/ \E n \in CheckNames : TimerFires(n)
    \/ HealthTick

SpecHealth == InitHealth /\ [][NextHealth]_vars

\* C22: a runCheck is pending for no longer than the timeout registered for
\* its check and its result has a duration of at most that timeout; a check
\* function that has not finished, or that finished after the timeout, is
\* reported unhealthy; the summary of runAllChecks is unhealthy exactly when a
\* check registered as critical has a result that is not healthy.
C22_ChecksSettleWithinTimeout ==
    /\ \A n \in CheckNames :
          /\ hrun[n].state = "pending" =>
                /\ hrun[n].timer = "armed"
                /\ hnow - hrun[n].startTime <= checks[n].timeout
          /\ hrun[n].state = "settled" =>
                /\ hrun[n].result.status \in {"healthy", "unhealthy"}
                /\ hrun[n].result.duration <= checks[n].timeout
                /\ lastResult[n] = hrun[n].result
                /\ ( \/ hrun[n].finishedAt = NotYet
                     \/ hrun[n].finishedAt > hrun[n].startTime + checks[n].timeout )
                      => hrun[n].result.status = "unhealthy"
    /\ summary # Null =>
          /\ \A n \in CheckNames : summary.checks[n] = hrun[n].result
          /\ summary.status = "unhealthy" <=>
                \E n \in CheckNames :
                    checks[n].critical /\ summary.checks[n].status # "healthy"
          /\ summary.status \in {"healthy", "unhealthy"}

\* a critical check whose function never finished was reported unhealthy at
\* its timeout, its function resolved later, and the summary is unhealthy
\* while the other check is healthy
C22_Witness ==
    /\ summary # Null /\ summary.status = "unhealthy"
    /\ checks["database"].critical
    /\ hrun["database"].result.error = "Health check timeout"
    /\ hrun["database"].result.duration = checks["database"].timeout
    /\ hrun["database"].check = "resolved"
    /\ hrun["redis"].result.status = "healthy"

----------------------------------------------------------------------------
(* Concurrent transition requests on one appointment: each request loads    *)
(* the document (checkAppointmentAccess), then calls updateStatus on its    *)
(* copy; save() of a persisted document writes its modified paths.          *)

MaxStatusWrites == 3   \* writes of the status to the collection in one behaviour

\* the requests that may be in flight together
Requests == {"r1", "r2"}

\* a request that holds no document
NoRequest == [pc |-> "idle", appointment |-> Null, result |-> "none"]

\* Document.save() of a persisted document: an updateOne that sets the paths
\* updateStatus assigned, whatever the collection holds by then
saveKeepsStatus(d, newStatus, held) == held
saveModifiedPaths(d, newStatus, held) ==
    LET h1 == [held EXCEPT !.status = d.status]
    IN  IF newStatus = "in-progress"
        THEN [h1 EXCEPT !.startTime = d.startTime]
        ELSE IF newStatus = "completed"
        THEN [h1 EXCEPT !.endTime = d.endTime, !.actualDuration = d.actualDuration]
        ELSE h1

\* checkAppointmentAccess: Appointment.findById sets req.appointment
LoadAppointment(r) ==
    /\ treq[r].pc = "idle"
    /\ treq' = [treq EXCEPT ![r] = [pc |-> "loaded", appointment |-> stored,
                                    result |-> "none"]]
    /\ UNCHANGED <<stored, tlog, nonConcVars>>

\* req.appointment.updateStatus(newStatus) of a request that loaded the document
TransitionRequest(r, newStatus, dbOk) ==
    /\ treq[r].pc = "loaded"
    /\ LET d == treq[r].appointment
       IN  IF ~Legal(d.status, newStatus)
           THEN /\ treq' = [treq EXCEPT ![r] = [NoRequest EXCEPT !.result = "illegal"]]
                /\ UNCHANGED <<stored, tlog>>
           ELSE IF ~dbOk
           THEN /\ treq' = [treq EXCEPT ![r] = [NoRequest EXCEPT !.result = "saveError"]]
                /\ UNCHANGED <<stored, tlog>>
           ELSE /\ Len(tlog) < MaxStatusWrites
                /\ stored' = saveModifiedPaths(Transitioned(d, newStatus, now),
                                                newStatus, stored)
                /\ treq' = [treq EXCEPT ![r] = [NoRequest EXCEPT !.result = "ok"]]
                /\ tlog' = Append(tlog, [ by |-> r, loaded |-> d.status,
                                          from |-> stored.status, to |-> newStatus ])
    /\ UNCHANGED nonConcVars

InitConc ==
    /\ stored = NewDoc(30 * MsPerHour)
    /\ treq = [r \in Requests |-> NoRequest]
    /\ tlog = <<>>
    /\ CacheIdle
    /\ ApptIdle
    /\ IndexIdle
    /\ HealthIdle
    /\ TtlIdle
    /\ UserRateIdle

NextConc ==
    \/ \E r \in Requests : LoadAppointment(r)
    \/ \E r \in Requests, s \in NewStatusArgs, ok \in BOOLEAN :
          TransitionRequest(r, s, ok)

SpecConc == InitConc /\ [][NextConc]_vars

\* C23: nothing orders two transition requests on one appointment: every
\* write of the status is legal from the status its request loaded, not
\* necessarily from the status the collection held, and the collection holds
\* the status of the last write.
C23_LastWriteWins ==
    /\ \A i \in 1..Len(tlog) : Legal(tlog[i].loaded, tlog[i].to)
    /\ tlog # <<>> => stored.status = tlog[Len(tlog)].to
    /\ \A i \in 2..Len(tlog) : tlog[i].from = tlog[i - 1].to

\* two requests loaded the status confirmed; one wrote no-show, then the other
\* wrote in-progress over it, a change that is not in the transition table
C23_Witness ==
    /\ Len(tlog) >= 2
    /\ LET a == tlog[Len(tlog) - 1]
           b == tlog[Len(tlog)]
       IN  /\ a.by # b.by
           /\ a.loaded = "confirmed" /\ b.loaded = "confirmed"
           /\ a.to = "no-show"
           /\ b.from = "no-show" /\ b.to = "in-progress"
           /\ ~Legal(b.from, b.to)
    /\ stored.status = "in-progress"
    /\ \A r \in Requests : treq[r].result = "ok"

----------------------------------------------------------------------------
(* Expiry of the cached responses: the ttl of an entry is the time it has   *)
(* left; Redis counts it down and drops the key when none is left.          *)

MaxTtlTicks == 7       \* advances of the clock of Redis in one behaviour

\* one advance of the clock: a third of the expiration of the service list
TtlTick == ServiceListExpiration \div 3

\* the expiration getServices passes to cacheService.set
GetServicesExpiration == 300

\* two requests of one getServices key and two serviceListCache keys:
\* GET /api/v1/services?category=nursing, and the same with sortBy=createdAt
TtlRequests ==
    { [route |-> "services", method |-> "GET", path |-> "/", user |-> Undef,
       query |-> [category |-> "nursing"]],
      [route |-> "services", method |-> "GET", path |-> "/", user |-> Undef,
       query |-> [category |-> "nursing", sortBy |-> "createdAt"]] }

\* the keyspace after d seconds
Expired(store, d) ==
    [k \in {j \in DOMAIN store : store[j].ttl = NoExpiry \/ store[j].ttl > d} |->
        IF store[k].ttl = NoExpiry THEN store[k] ELSE [store[k] EXCEPT !.ttl = @ - d]]

\* time passes on the Redis server
CacheTick ==
    /\ cnow < MaxTtlTicks * TtlTick
    /\ cnow' = cnow + TtlTick
    /\ redis' = Expired(redis, TtlTick)
    /\ UNCHANGED <<isConnected, dataVer, tasks, invalClean, clast, creqs, writes,
                   committedAt, nonCacheTtlVars>>

\* a mutation of the data is committed and its invalidation never runs: the
\* process stops before the response is sent, or the store refuses the calls
\* of invalidatePatterns
CommitWithoutInvalidation ==
    /\ committedAt = NotYet
    /\ dataVer' = dataVer + 1
    /\ committedAt' = cnow
    /\ UNCHANGED <<isConnected, redis, tasks, invalClean, clast, creqs, writes, cnow,
                   nonCacheTtlVars>>

InitTtl ==
    /\ CacheIdle
    /\ ApptIdle
    /\ IndexIdle
    /\ HealthIdle
    /\ ConcIdle
    /\ TtlIdle
    /\ UserRateIdle

NextTtl ==
    \/ Connect
    \/ \E req \in TtlRequests, o \in DbOutcomes : ReadServices(req, o)
    \/ CommitWithoutInvalidation
    \/ CacheTick

SpecTtl == InitTtl /\ [][NextTtl]_vars

\* the payload of a cached or served JSON text, if it has one
PayloadOf(text) == IF "data" \in DOMAIN text.json THEN text.json.data ELSE Undef

\* a request was answered with a payload older than the data
StaleRead ==
    /\ creqs' = creqs + 1
    /\ clast'.op = "read"
    /\ PayloadOf(clast'.body) \notin {Undef, DataAt[dataVer]}

\* C24: every entry of the keyspace has a time to live that is positive and
\* at most the expiration of its write, and no request makes the time an
\* entry has left longer; after a commit whose invalidation never ran, a
\* payload older than the data is served only from an entry that has not
\* expired and only within the expirations of the two entries one response
\* is stored under, and once they have elapsed no entry holds such a payload.
C24_StaleOnlyUntilExpiry ==
    /\ [](\A k \in DOMAIN redis :
            redis[k].ttl > 0 /\ redis[k].ttl <= ServiceListExpiration)
    /\ [][\A k \in DOMAIN redis \cap DOMAIN redis' : redis'[k].ttl <= redis[k].ttl]_vars
    /\ [][StaleRead =>
            /\ committedAt # NotYet
            /\ cnow - committedAt < ServiceListExpiration + GetServicesExpiration
            /\ \E k \in DOMAIN redis :
                  PayloadOf(redis[k].value) = PayloadOf(clast'.body)]_vars
    /\ []((committedAt # NotYet
             /\ cnow - committedAt >= ServiceListExpiration + GetServicesExpiration)
            => \A k \in DOMAIN redis : PayloadOf(redis[k].value) = DataAt[dataVer])

\* a payload written before the commit was served as a hit after it, the
\* expiration has elapsed since the commit, and the entry is gone
C24_Witness ==
    /\ committedAt # NotYet
    /\ clast.op = "read" /\ clast.xcache = "HIT"
    /\ PayloadOf(clast.body) = DataAt[1] /\ clast.ver = 2
    /\ cnow - committedAt >= ServiceListExpiration
    /\ clast.key \notin DOMAIN redis

----------------------------------------------------------------------------
(* userRateLimit (middleware/authMiddleware): the history of the admitted   *)
(* requests of each user, kept in a map of the middleware.                  *)

MaxUserReqs == 5       \* requests through the middleware in one behaviour
MaxUserTicks == 3      \* advances of Date.now() in one behaviour
UserLimit == 2         \* the maxRequests the middleware was created with

\* windowMs, by default
UserWindowMs == 15 * 60 * 1000

\* one advance of Date.now(): half a window
UserTickMs == UserWindowMs \div 2

\* req.user._id of the callers; a request without req.user has none
UserIds == {"u1", "u2"}
NoUser == "none"

\* userRequests.get(userId) || []
HistoryOf(map, userId) == IF userId \in DOMAIN map THEN map[userId] ELSE <<>>

\* the middleware userRateLimit(maxRequests, windowMs) returns, on a request
\* of user at time t: the status it answers (0: it calls next()) and the map
userRateLimitOffByOne(map, user, t, maxRequests, windowMs) ==
    LET windowStart == t - windowMs
        userHistory == SelectSeq(HistoryOf(map, user), LAMBDA ts : ts > windowStart)
    IN  IF user = NoUser THEN [status |-> 0, map |-> map]
        ELSE IF Len(userHistory) > maxRequests THEN [status |-> 429, map |-> map]
        ELSE [status |-> 0, map |-> Bound(map, user, Append(userHistory, t))]
userRateLimit(map, user, t, maxRequests, windowMs) ==
    LET windowStart == t - windowMs
        userHistory == SelectSeq(HistoryOf(map, user), LAMBDA ts : ts > windowStart)
    IN  IF user = NoUser THEN [status |-> 0, map |-> map]
        ELSE IF Len(userHistory) >= maxRequests THEN [status |-> 429, map |-> map]
        ELSE [status |-> 0, map |-> Bound(map, user, Append(userHistory, t))]

\* a request through the middleware
UserRequest(user) ==
    /\ ureqs < MaxUserReqs
    /\ LET r == userRateLimit(userRequests, user, unow, UserLimit, UserWindowMs)
       IN  /\ userRequests' = r.map
           /\ admitted' = IF r.status = 0 /\ user # NoUser
                           THEN Bound(admitted, user, Append(HistoryOf(admitted, user), unow))
                           ELSE admitted
           /\ ulast' = [ op |-> "request", user |-> user, at |-> unow,
                         status |-> r.status, before |-> userRequests,
                         passed |-> HistoryOf(admitted, user) ]
    /\ ureqs' = ureqs + 1
    /\ UNCHANGED <<unow, nonUserRateVars>>

\* Date.now() advances
UserTick ==
    /\ unow < MaxUserTicks * UserTickMs
    /\ unow' = unow + UserTickMs
    /\ UNCHANGED <<userRequests, admitted, ulast, ureqs, nonUserRateVars>>

InitUserRate ==
    /\ CacheIdle
    /\ ApptIdle
    /\ IndexIdle
    /\ HealthIdle
    /\ ConcIdle
    /\ TtlIdle
    /\ UserRateIdle

NextUserRate ==
    \/ \E u \in UserIds \cup {NoUser} : UserRequest(u)
    \/ UserTick

SpecUserRate == InitUserRate /\ [][NextUserRate]_vars

\* the admitted requests of a history that lie in the window (t - windowMs, t]
InWindow(history, t, windowMs) ==
    Cardinality({i \in 1..Len(history) : history[i] > t - windowMs /\ history[i] <= t})

\* C25: of the requests of one user that userRateLimit admitted, at most
\* maxRequests lie in any window (t - windowMs, t], and a request is answered
\* 429 exactly when maxRequests admitted requests of its user lie in the
\* window that ends with it; a request answered 429 leaves the map as it
\* was, a request of one user leaves the history of every other user as it
\* was, and a request without a user is passed on and leaves the map as it was.
C25_SlidingWindowPerUser ==
    /\ \A u \in DOMAIN admitted : \A i \in 1..Len(admitted[u]) :
          InWindow(admitted[u], admitted[u][i], UserWindowMs) <= UserLimit
    /\ ulast.op = "request" =>
          /\ ulast.user # NoUser =>
                (ulast.status = 429 <=>
                    InWindow(ulast.passed, ulast.at, UserWindowMs) >= UserLimit)
          /\ ulast.status = 429 => userRequests = ulast.before
          /\ \A v \in UserIds \ {ulast.user} :
                HistoryOf(userRequests, v) = HistoryOf(ulast.before, v)
          /\ ulast.user = NoUser => (ulast.status = 0 /\ userRequests = ulast.before)

\* a user who was admitted at time 0 is admitted one more time than the limit:
\* the last request comes a whole window later, when the request of time 0
\* has left the window; the other user was admitted meanwhile
C25_Witness ==
    /\ ulast.op = "request" /\ ulast.user = "u1" /\ ulast.status = 0
    /\ ulast.at = 2 * UserTickMs
    /\ Len(admitted["u1"]) = UserLimit + 1
    /\ admitted["u1"][1] = 0
    /\ "u2" \in DOMAIN admitted
    /\ ureqs = MaxUserReqs

----------------------------------------------------------------------------
(* The keys of the per-user caches as the strings the code builds.  A text  *)
(* is the sequence of its characters; a literal of the code is one symbol.  *)

MaxIsoReqs == 2        \* requests through the per-user caches in one behaviour

\* the characters a user id is made of (the hex digits of an ObjectId)
IdChars == {"a", "b"}

\* req.user.id of the authenticated callers: texts of one length
IdText ==
    [ aa |-> <<"a", "a">>, ab |-> <<"a", "b">>, ba |-> <<"b", "a">> ]
CallerIds == DOMAIN IdText
IdLength == Len(IdText["aa"])

\* the values a caller can give a query parameter, the delimiters included
FilterValues == { <<"a">>, <<"a", "b">>, <<"a", "&", "d", "=", "b">>, <<"b", ":", "a">> }

\* the texts joined, sep between them
RECURSIVE Join(_, _)
Join(texts, sep) ==
    IF texts = <<>> THEN <<>>
    ELSE IF Len(texts) = 1 THEN texts[1]
    ELSE texts[1] \o sep \o Join(Tail(texts), sep)

\* CacheService.generateKey as a string; params: the <<name, value>> entries
generateKeyText(type, identifier, params) ==
    LET paramStr ==
            IF params = <<>> THEN <<>>
            ELSE <<":">> \o Join([i \in 1..Len(params) |->
                                     <<params[i][1], "=">> \o params[i][2]], <<"&">>)
    IN  <<NodeEnv, ":", type, ":">> \o identifier \o paramStr

\* Buffer.from(text).toString('base64'): one to one, into characters that
\* are not ':'
Base64(text) == [i \in 1..Len(text) |-> "base64 of " \o text[i]]

\* JSON.stringify(req.query)
QueryText(query) ==
    <<"{">> \o Join([i \in 1..Len(query) |->
                       <<"\"", query[i][1], "\"", ":", "\"">> \o query[i][2] \o <<"\"">>],
                   <<",">>)
          \o <<"}">>

\* the <<name, value>> entries of an object without its undefined values
Defined(entries) == SelectSeq(entries, LAMBDA e : e[2] # <<>>)

\* the keyGenerator of appointmentCache
appointmentCacheKey(req) ==
    generateKeyText("appointments", IdText[req.user],
                    Defined(<< <<"status", req.status>>, <<"date", req.date>>,
                               <<"serviceId", req.serviceId>> >>))

\* the keyGenerator of userProfileCache: req.user?.id || req.params.id
userProfileCacheKeyByParam(req) == generateKeyText("user", IdText[req.id], <<>>)
userProfileCacheKey(req) == generateKeyText("user", IdText[req.user], <<>>)

\* generateDefaultKey as a string
generateDefaultKeyText(req) ==
    <<req.method, ":">> \o req.path \o <<":">> \o IdText[req.user] \o <<":">>
        \o Base64(IF req.query # <<>> THEN QueryText(req.query) ELSE <<>>)

\* the requests of the model; an absent parameter is the empty text
NoValue == <<>>
AppointmentRequests ==
    { [cache |-> "appointments", user |-> u, status |-> s, date |-> d, serviceId |-> NoValue] :
        u \in CallerIds, s \in FilterValues \cup {NoValue}, d \in {NoValue, <<"b">>} }
ProfileRequests ==
    { [cache |-> "profile", user |-> u, id |-> i] : u \in CallerIds, i \in CallerIds }
DefaultRequests ==
    { [cache |-> "default", user |-> u, method |-> "GET", path |-> p, query |-> q] :
        u \in CallerIds,
        p \in { <<"/", "a">>, <<"/", "a", ":", "a", "b">> },
        q \in { <<>>, << <<"status", <<"a">>>> >> } }

\* the key and the expiration of the cache a request goes through
PerUserKey(req) ==
    IF req.cache = "appointments" THEN appointmentCacheKey(req)
    ELSE IF req.cache = "profile" THEN userProfileCacheKey(req)
    ELSE generateDefaultKeyText(req)
PerUserExpiration(req) ==
    IF req.cache = "appointments" THEN 600
    ELSE IF req.cache = "profile" THEN 1800
    ELSE MiddlewareExpiration

\* a GET of an authenticated caller through cacheMiddleware: a hit answers
\* the cached payload, a miss stores what the handler answers for the caller
PerUserRead(req) ==
    /\ creqs < MaxIsoReqs
    /\ LET key == PerUserKey(req)
           g == get(redis, isConnected, FALSE, key)
           data == [success |-> "true", owner |-> req.user]
           s == set(redis, isConnected, FALSE, key, data, PerUserExpiration(req))
       IN  /\ redis' = IF g.value # Null THEN redis ELSE s.store
           /\ clast' = [ op |-> "peruser", req |-> req, key |-> key, pre |-> redis,
                         answer |-> IF g.value # Null THEN hit(g.value)
                                    ELSE miss(Handled(200, data, redis, FALSE)) ]
    /\ creqs' = creqs + 1
    /\ UNCHANGED <<isConnected, dataVer, tasks, invalClean, writes, nonCacheVars>>

\* cacheService.cacheAppointments(userId, data)
CacheAppointments(user) ==
    /\ creqs < MaxIsoReqs
    /\ LET key == generateKeyText("appointments", IdText[user], <<>>)
           s == set(redis, isConnected, FALSE, key,
                    [success |-> "true", owner |-> user], 600)
       IN  /\ redis' = s.store
           /\ clast' = [op |-> "cacheAppointments", user |-> user, key |-> key,
                         pre |-> redis]
    /\ creqs' = creqs + 1
    /\ UNCHANGED <<isConnected, dataVer, tasks, invalClean, writes, nonCacheVars>>

\* cacheService.invalidateAppointmentCache(userId)
InvalidateAppointmentCache(user) ==
    /\ creqs < MaxIsoReqs
    /\ LET key == generateKeyText("appointments", IdText[user], <<>>)
           d == del(redis, isConnected, FALSE, key)
       IN  /\ redis' = d.store
           /\ clast' = [op |-> "invalidateAppointmentCache", user |-> user, key |-> key,
                         pre |-> redis]
    /\ creqs' = creqs + 1
    /\ UNCHANGED <<isConnected, dataVer, tasks, invalClean, writes, nonCacheVars>>

InitIso ==
    /\ isConnected = TRUE
    /\ redis = [k \in {} |-> Null]
    /\ dataVer = 1
    /\ tasks = <<>>
    /\ invalClean = TRUE
    /\ clast = [op |-> "none"]
    /\ creqs = 0
    /\ writes = 0
    /\ ApptIdle
    /\ IndexIdle
    /\ HealthIdle
    /\ ConcIdle
    /\ TtlIdle
    /\ UserRateIdle

NextIso ==
    \/ \E req \in AppointmentRequests : PerUserRead(req)
    \/ \E req \in ProfileRequests : PerUserRead(req)
    \/ \E req \in DefaultRequests : PerUserRead(req)
    \/ \E u \in CallerIds : CacheAppointments(u)
    \/ \E u \in CallerIds : InvalidateAppointmentCache(u)

SpecIso == InitIso /\ [][NextIso]_vars

\* C29: the answer to a request through appointmentCache, userProfileCache
\* or the default key generator is a payload that was stored for the caller
\* of the request: a request hits exactly when its key is in the store,
\* every key in the store holds a payload of one caller, and no request of
\* another caller has that key, whatever its filters.
C29_PerUserIsolation ==
    /\ clast.op = "peruser" =>
          /\ clast.answer.body.json.owner = clast.req.user
          /\ clast.answer.xcache = "HIT" <=> clast.key \in DOMAIN clast.pre
    /\ \A k \in DOMAIN redis :
          \E u \in CallerIds :
              /\ JsonParse(redis[k].value).owner = u
              /\ \A req \in AppointmentRequests \cup ProfileRequests \cup DefaultRequests :
                    PerUserKey(req) = k => req.user = u

\* a caller's list of appointments was stored, another caller asked with the
\* same filters and missed, and the store holds one entry for each
C29_Witness ==
    /\ clast.op = "peruser"
    /\ clast.req.cache = "appointments"
    /\ clast.answer.xcache = "MISS"
    /\ Cardinality(DOMAIN redis) = 2
    /\ \E k \in DOMAIN clast.pre :
          /\ JsonParse(clast.pre[k].value).owner # clast.req.user
          /\ Len(k) = Len(clast.key)
          /\ \A i \in 1..Len(k) : (i <= 4 \/ i > 4 + IdLength) => k[i] = clast.key[i]

\* C30: after invalidateAppointmentCache(userId) with the store reachable, no
\* key that appointmentCache or cacheAppointments builds for that user is in
\* the store, with or without filters, and every other key is as it was.
C30_NoAppointmentListRemains ==
    (clast.op = "invalidateAppointmentCache" /\ isConnected) =>
        /\ \A req \in AppointmentRequests :
              req.user = clast.user => appointmentCacheKey(req) \notin DOMAIN redis
        /\ \A k \in DOMAIN clast.pre :
              JsonParse(clast.pre[k].value).owner # clast.user
                  => (k \in DOMAIN redis /\ redis[k] = clast.pre[k])

====
